---- MODULE Spec2Model ----
(***************************************************************************)
(* The scraper of route.js (reproduced in src/README.md) and its two entry *)
(* points, POST of route.js and the callback of Actor.main of main.js.     *)
(*                                                                         *)
(* Spec: one invocation of an entry point and of scrapeAndSummarize: URL   *)
(* validation, the HTTP attempt raced against its 15s timer, the browser   *)
(* attempt raced against its 25s timer, the mapping of a double failure to *)
(* the public error, the optional summarization, and what the entry point  *)
(* returns or stores.                                                      *)
(*                                                                         *)
(* SpecExtract: extractFromHtml on its own, applied to documents large     *)
(* enough to pass each of its caps.                                        *)
(*                                                                         *)
(* SpecClassify: looksBlockedOrJsRequired and looksEmptyExtraction on      *)
(* their own, applied to htmls written with and without each challenge     *)
(* phrase and to extractions on both sides of each threshold.              *)
(*                                                                         *)
(* scrapeWithHttp and scrapeWithBrowser are promises of their own: each    *)
(* keeps running after the timer of withTimeout has rejected the race.     *)
(* Atomic steps are the runs of synchronous code between two awaits.       *)
(***************************************************************************)
EXTENDS Integers, Sequences, FiniteSets, TLC

VARIABLES
  input,          \* the ScrapeRequest {url, prompt}
  env,            \* process.env / process.platform as scrapeWithBrowser reads them
  pc,             \* position of scrapeAndSummarize
  normalizedUrl,  \* let normalizedUrl
  scraped,        \* let scraped
  methodUsed,     \* let methodUsed
  httpError,      \* let httpError (its message, or Null)
  httpTask,       \* the promise returned by scrapeWithHttp, and the html it fetched
  browserTask,    \* the promise returned by scrapeWithBrowser and its position (st,
                  \* attempt), the html its loop accepted, and what the page was
                  \* asked so far: captures and rejections of page.content(), scrolls,
                  \* and the delay waited since the last capture
  browsers,       \* [launched, closed]: browser instances launched / closed so far
  calls,          \* [get, post]: axios.get / axios.post calls issued so far
  result,         \* the record scrapeAndSummarize returned
  thrown,         \* the error scrapeAndSummarize threw
  postAnswer,     \* how the axios.post of the summarization settled
  caller,         \* the entry point (POST of route.js, Actor.main of main.js) and its position
  delivered,      \* what the entry point produced: the Response, the dataset, the key-value store
  document,       \* the parsed HTML handed to extractFromHtml on its own
  extraction,     \* what extractFromHtml returned for document
  sample,         \* the (html, extracted) handed to the two predicates on their own
  verdict         \* what the predicates returned for sample, by predicate

extractorVars == <<document, extraction>>
classifierVars == <<sample, verdict>>
callerVars == <<caller, delivered>>
outerVars == <<extractorVars, classifierVars, callerVars>>

vars == <<input, env, pc, normalizedUrl, scraped, methodUsed, httpError,
          httpTask, browserTask, browsers, calls, result, thrown,
          postAnswer, caller, delivered, document, extraction, sample, verdict>>

-----------------------------------------------------------------------------
(* JavaScript values *)

Null == "null"
Undefined == [undefined |-> TRUE]

\* no predicate has returned yet
NoVerdict == [k \in {} |-> TRUE]

\* String.prototype.includes
Includes(s, sub) ==
  \E i \in 1..(Len(s) - Len(sub) + 1) : SubSeq(s, i, i + Len(sub) - 1) = sub

UpperChars == "ABCDEFGHIJKLMNOPQRSTUVWXYZ"
LowerChars == "abcdefghijklmnopqrstuvwxyz"
DigitChars == "0123456789"

CharAt(s, i) == SubSeq(s, i, i)

LowerChar(c) ==
  IF \E i \in 1..Len(UpperChars) : CharAt(UpperChars, i) = c
  THEN CharAt(LowerChars, CHOOSE i \in 1..Len(UpperChars) : CharAt(UpperChars, i) = c)
  ELSE c

\* characters lo..hi of s in lower case
RECURSIVE LowerRange(_, _, _)
LowerRange(s, lo, hi) ==
  IF lo > hi THEN ""
  ELSE IF lo = hi THEN LowerChar(CharAt(s, lo))
  ELSE LowerRange(s, lo, (lo + hi) \div 2) \o LowerRange(s, (lo + hi) \div 2 + 1, hi)

\* String.prototype.toLowerCase
ToLowerCase(s) == LowerRange(s, 1, Len(s))

\* object spread {...a, ...b}: the keys of b override those of a
Spread(a, b) ==
  [k \in (DOMAIN a) \cup (DOMAIN b) |-> IF k \in DOMAIN b THEN b[k] ELSE a[k]]

\* const { key, ...rest } = r
Rest(r, key) == [k \in (DOMAIN r) \ {key} |-> r[k]]

-----------------------------------------------------------------------------
(* new URL(rawUrl): the part of the WHATWG parser validateScrapeUrl relies  *)
(* on: a scheme, and for the special schemes a non-empty host.              *)

IsAlpha(c) == Includes(UpperChars, c) \/ Includes(LowerChars, c)
IsSchemeChar(c) == IsAlpha(c) \/ Includes(DigitChars, c) \/ c \in {"+", "-", "."}

SpecialSchemes == {"http", "https", "ftp", "ws", "wss"}

\* index of the first occurrence of the one-character string c in s, 0 if none
IndexOf(s, c) ==
  IF \E i \in 1..Len(s) : CharAt(s, i) = c
  THEN CHOOSE i \in 1..Len(s) :
         CharAt(s, i) = c /\ \A j \in 1..(i - 1) : CharAt(s, j) # c
  ELSE 0

RECURSIVE SkipSlashes(_)
SkipSlashes(s) ==
  IF Len(s) > 0 /\ CharAt(s, 1) \in {"/", "\\"}
  THEN SkipSlashes(SubSeq(s, 2, Len(s)))
  ELSE s

ParseUrl(rawUrl) ==
  LET colon == IndexOf(rawUrl, ":")
      scheme == ToLowerCase(SubSeq(rawUrl, 1, colon - 1))
      after == SubSeq(rawUrl, colon + 1, Len(rawUrl))
      hostPath == SkipSlashes(after)
      slash == IndexOf(hostPath, "/")
      host == IF slash = 0 THEN hostPath ELSE SubSeq(hostPath, 1, slash - 1)
      path == IF slash = 0 THEN "/" ELSE SubSeq(hostPath, slash, Len(hostPath))
      schemeOk == /\ colon > 1
                  /\ IsAlpha(CharAt(rawUrl, 1))
                  /\ \A i \in 1..(colon - 1) : IsSchemeChar(CharAt(rawUrl, i))
  IN IF ~schemeOk THEN [ok |-> FALSE, protocol |-> "", href |-> ""]
     ELSE IF scheme \in SpecialSchemes
     THEN IF Len(host) = 0 THEN [ok |-> FALSE, protocol |-> "", href |-> ""]
          ELSE [ok |-> TRUE, protocol |-> scheme \o ":",
                href |-> scheme \o "://" \o ToLowerCase(host) \o path]
     ELSE [ok |-> TRUE, protocol |-> scheme \o ":", href |-> scheme \o ":" \o after]

\* validateScrapeUrl without its protocol check
ValidateWithoutProtocolCheck(rawUrl) ==
  LET parsed == ParseUrl(rawUrl)
  IN IF ~parsed.ok THEN [threw |-> TRUE, message |-> "INVALID_URL", href |-> ""]
     ELSE [threw |-> FALSE, message |-> "", href |-> parsed.href]

\* validateScrapeUrl with the protocol read inside the try block, so that a
\* parse failure is reported like a wrong protocol
ValidateParseFailureAsProtocol(rawUrl) ==
  LET parsed == ParseUrl(rawUrl)
  IN IF ~parsed.ok \/ (parsed.protocol # "http:" /\ parsed.protocol # "https:")
     THEN [threw |-> TRUE, message |-> "INVALID_URL_PROTOCOL", href |-> ""]
     ELSE [threw |-> FALSE, message |-> "", href |-> parsed.href]

\* validateScrapeUrl: [threw, message] or [threw = FALSE, href]
ValidateScrapeUrl(rawUrl) ==
  LET parsed == ParseUrl(rawUrl)
  IN IF ~parsed.ok THEN [threw |-> TRUE, message |-> "INVALID_URL", href |-> ""]
     ELSE IF parsed.protocol # "http:" /\ parsed.protocol # "https:"
     THEN [threw |-> TRUE, message |-> "INVALID_URL_PROTOCOL", href |-> ""]
     ELSE [threw |-> FALSE, message |-> "", href |-> parsed.href]

-----------------------------------------------------------------------------
(* Bounds of the model *)

\* how many of the pages of AllPages a server or the rendered DOM may show
MaxPages == 5

\* how many of the raw urls of AllRawUrls an input may carry
MaxRawUrls == 7

\* the sizes of the largest document handed to extractFromHtml on its own:
\* its tables, the rows and columns of a table, its lists, the items of a
\* list, its candidate elements, the characters of an element's text
MaxDocTables == 11
MaxDocRows == 51
MaxDocCols == 21
MaxDocLists == 31
MaxDocItems == 61
MaxDocElements == 81
MaxTextLength == 301

-----------------------------------------------------------------------------
(* Pages: what cheerio sees of an HTML document.  rawHtml is the text the   *)
(* classifier searches; bodyTextLength is $('body').text().trim().length;   *)
(* paragraphs are the <p> texts longer than 30 characters; links the kept   *)
(* anchors.                                                                 *)

(* tables, lists and elements are the <table>, <ul>/<ol> and remaining      *)
(* elements of the document, in document order.                             *)

Page(title, rawHtml, bodyTextLength, paragraphs, links) ==
  [title |-> title, rawHtml |-> rawHtml, bodyTextLength |-> bodyTextLength,
   paragraphs |-> paragraphs, links |-> links,
   tables |-> <<>>, lists |-> <<>>, elements |-> <<>>]

AllPages ==
  << Page("Example Domain", "<title>Example Domain</title><p>..</p><p>..</p>",
          250, <<"p1", "p2">>, <<"a1", "a2", "a3", "a4">>),
     Page("", "<div id=root></div>", 0, <<>>, <<>>),
     Page("Just a moment", "<title>Attention Required! | Cloudflare</title>",
          400, <<"p1", "p2">>, <<"a1", "a2", "a3", "a4">>),
     Page("Shell", "<title>Shell</title><p>..</p>",
          150, <<"p1">>, <<"a1", "a2", "a3", "a4">>),
     Page("Links", "<title>Links</title><a>..</a>",
          300, <<>>, <<"a1", "a2", "a3">>),
     Page("Docs", "<title>Docs</title><p>..</p><script src=jquery.js>",
          200, <<"p1">>, <<"a1", "a2", "a3", "a4">>),
     Page("Notice", "<p>Please ENABLE JavaScript to continue</p>",
          500, <<"p1", "p2">>, <<>>) >>

Min(a, b) == IF a < b THEN a ELSE b

Pages == {AllPages[i] : i \in 1..Min(MaxPages, Len(AllPages))}

AllRawUrls ==
  << "", "not-a-url", "ftp://example.com", "https://example.com",
     "HTTP://Example.com/a", "mailto:a@b.c", "http://", "//example.com" >>

RawUrls == {AllRawUrls[i] : i \in 1..Min(MaxRawUrls, Len(AllRawUrls))}

Prompts == {"", "Summarize the page in 5 bullets"}

\* the hrefs validateScrapeUrl can return for RawUrls
NormalizedUrls ==
  {ValidateScrapeUrl(u).href : u \in {r \in RawUrls : ~ValidateScrapeUrl(r).threw}}

-----------------------------------------------------------------------------
(* detectTechStack: the signature catalog, in detection order *)

DetectTechStack(html, url) ==
  LET lowerHtml == ToLowerCase(html)
      has(x) == Includes(lowerHtml, x)
      sig(cond, name, icon) == IF cond THEN <<[name |-> name, icon |-> icon]>> ELSE <<>>
  IN  sig(has("_next"), "Next.js", "Next")
   \o sig(~has("_next") /\ (has("react") \/ has("__next")), "React", "React")
   \o sig(has("nuxt"), "Nuxt.js", "Vue")
   \o sig(~has("nuxt") /\ has("vue"), "Vue.js", "Vue")
   \o sig(has("angular") \/ has("ng-version"), "Angular", "Angular")
   \o sig(has("svelte"), "Svelte", "Svelte")
   \o sig(has("bootstrap"), "Bootstrap", "Bootstrap")
   \o sig(has("tailwind"), "Tailwind CSS", "Tailwind")
   \o sig(has("material-ui") \/ has("mui"), "Material-UI", "MUI")
   \o sig(has("wordpress") \/ has("wp-content"), "WordPress", "WP")
   \o sig(has("shopify"), "Shopify", "Shopify")
   \o sig(has("wix"), "Wix", "Wix")
   \o sig(has("google-analytics") \/ has("gtag"), "Google Analytics", "GA")
   \o sig(has("jquery"), "jQuery", "jQuery")
   \o sig(has("cloudflare"), "Cloudflare", "CF")
   \o sig(has("gatsby"), "Gatsby", "Gatsby")
   \o sig(has("remix"), "Remix", "Remix")
   \o sig(Includes(url, "vercel.app"), "Vercel", "Vercel")
   \o sig(Includes(url, "netlify.app"), "Netlify", "Netlify")
   \o sig(Includes(url, "github.io"), "GitHub Pages", "GitHub")

-----------------------------------------------------------------------------
(* Program constants of the extractor *)

MAX_TABLES == 10
MAX_TABLE_ROWS == 50
MAX_TABLE_COLS == 20
MAX_LISTS == 30
MAX_LIST_ITEMS == 60
MAX_UNIQUE_COMPONENTS == 80

-----------------------------------------------------------------------------
(* normalizeText: runs of whitespace become one space, then trim *)

IsSpace(c) == c \in {" ", "\t", "\n"}

\* what character i of text leaves in the result: itself, one space for the
\* first character of a run of whitespace that has text on both sides, else
\* nothing
Kept(text, i, last) ==
  IF ~IsSpace(CharAt(text, i)) THEN CharAt(text, i)
  ELSE IF i > 1 /\ ~IsSpace(CharAt(text, i - 1)) /\ i < last THEN " "
  ELSE ""

RECURSIVE NormalizeRange(_, _, _, _)
NormalizeRange(text, lo, hi, last) ==
  IF lo > hi THEN ""
  ELSE IF lo = hi THEN Kept(text, lo, last)
  ELSE LET mid == (lo + hi) \div 2
       IN NormalizeRange(text, lo, mid, last) \o NormalizeRange(text, mid + 1, hi, last)

NormalizeText(value) ==
  LET solid == {i \in 1..Len(value) : ~IsSpace(CharAt(value, i))}
      last == IF solid = {} THEN 0 ELSE CHOOSE i \in solid : \A j \in solid : j <= i
  IN NormalizeRange(value, 1, Len(value), last)

\* Array.prototype.slice(0, n) and String.prototype.slice(0, n)
Slice(s, n) == SubSeq(s, 1, Min(n, Len(s)))

NonEmpty(t) == Len(t) > 0

Max(S) == CHOOSE x \in S : \A y \in S : y <= x

-----------------------------------------------------------------------------
(* extractTables.  A table is [caption, thead, tbody]: the rows of its      *)
(* <thead> and of its <tbody>, each row the sequence of its th/td cells     *)
(* [tag, text].                                                             *)

\* .find('th, td').map(cell => normalizeText($(cell).text())).get()
CellTexts(row) == [i \in 1..Len(row) |-> NormalizeText(row[i].text)]

HasTh(row) == \E i \in 1..Len(row) : row[i].tag = "th"

\* the cells of row rowIdx (counted from 1) that allRows.each would push:
\* none for the first row when it was used as the header row
RowCells(allRows, rowIdx, headers, noTheadTr) ==
  IF rowIdx = 1 /\ Len(headers) > 0 /\ noTheadTr THEN <<>>
  ELSE SelectSeq(Slice(CellTexts(allRows[rowIdx]), MAX_TABLE_COLS), NonEmpty)

\* allRows.each without the test of rows.length
DataRowsUncapped(allRows, headers, noTheadTr) ==
  SelectSeq([rowIdx \in 1..Len(allRows) |-> RowCells(allRows, rowIdx, headers, noTheadTr)],
            NonEmpty)

\* allRows.each((rowIdx, tr) => ...): every row with cells left is pushed, in
\* order, until rows holds MAX_TABLE_ROWS of them
DataRows(allRows, headers, noTheadTr) ==
  Slice(SelectSeq([rowIdx \in 1..Len(allRows) |->
                     RowCells(allRows, rowIdx, headers, noTheadTr)],
                  NonEmpty),
        MAX_TABLE_ROWS)

\* the body of $('table').each for one table: what it would push
ExtractTable(table) ==
  LET allTr == table.thead \o table.tbody
      theadHeaderCells == IF Len(table.thead) > 0 THEN table.thead[1] ELSE <<>>
      headers ==
        IF Len(theadHeaderCells) > 0
        THEN Slice(CellTexts(theadHeaderCells), MAX_TABLE_COLS)
        ELSE IF Len(allTr) > 0 /\ HasTh(allTr[1])
        THEN Slice(CellTexts(allTr[1]), MAX_TABLE_COLS)
        ELSE <<>>
      allRows == IF Len(table.tbody) > 0 THEN table.tbody ELSE allTr
      rows == DataRows(allRows, headers, Len(table.thead) = 0)
  IN [caption |-> NormalizeText(table.caption),
      headers |-> headers,
      rows |-> rows,
      rowCount |-> Len(rows),
      colCount |-> Max({Len(headers)} \cup {Len(rows[i]) : i \in 1..Len(rows)}),
      html |-> table]

\* if (headers.length === 0 && rows.length === 0) return
TableKept(t) == ~(Len(t.headers) = 0 /\ Len(t.rows) = 0)

\* $('table').each: every table kept is pushed, in order, until tables holds
\* MAX_TABLES of them
ExtractTables(tables) ==
  Slice(SelectSeq([i \in 1..Len(tables) |-> ExtractTable(tables[i])], TableKept),
        MAX_TABLES)

-----------------------------------------------------------------------------
(* extractLists.  A list is [type, items]: its tag and the texts of its <li> *)

\* the body of $('ul, ol').each for one list: what it would push
ExtractList(list) ==
  LET texts == [i \in 1..Len(list.items) |-> NormalizeText(list.items[i])]
      items == Slice(SelectSeq(texts, NonEmpty), MAX_LIST_ITEMS)
  IN [type |-> IF list.type = "ol" THEN "ol" ELSE "ul",
      items |-> items,
      itemCount |-> Len(items),
      html |-> list]

\* if (items.length === 0) return
ListKept(l) == Len(l.items) > 0

\* $('ul, ol').each: every list kept is pushed, in order, until lists holds
\* MAX_LISTS of them
ExtractLists(lists) ==
  Slice(SelectSeq([i \in 1..Len(lists) |-> ExtractList(lists[i])], ListKept),
        MAX_LISTS)

-----------------------------------------------------------------------------
(* extractUniqueComponents.  An element is [tag, text, attrs], attrs a      *)
(* function from the names of its attributes to their values.               *)

Candidates ==
  {"h1", "h2", "h3", "h4", "h5", "h6", "blockquote", "pre", "code",
   "form", "button", "input", "select", "textarea",
   "header", "nav", "main", "section", "article", "aside", "footer",
   "iframe", "video", "audio"}

SkipTags == {"p", "a", "img", "table", "ul", "ol"}

PickedAttrs == <<"type", "name", "id", "placeholder", "value", "aria-label", "role", "title">>

\* $(el).attr(name), '' standing for undefined
Attr(el, name) == IF name \in DOMAIN el.attrs THEN el.attrs[name] ELSE ""

\* Array.prototype.join
RECURSIVE Join(_, _)
Join(parts, sep) ==
  IF Len(parts) = 0 THEN ""
  ELSE IF Len(parts) = 1 THEN parts[1]
  ELSE parts[1] \o sep \o Join(Tail(parts), sep)

PickAttrs(el) ==
  LET present == SelectSeq(PickedAttrs, LAMBDA a : Attr(el, a) # "")
  IN Join([i \in 1..Len(present) |->
             present[i] \o "=" \o NormalizeText(Attr(el, present[i]))], " | ")

\* el.tagName === 'input' ? `input[type=${type}]` having a type : tag
InputName(type) == IF type # "" THEN "input[type=" \o type \o "]" ELSE "input"

ComponentName(el) ==
  IF el.tag = "input" THEN InputName(NormalizeText(Attr(el, "type"))) ELSE el.tag

\* text || label || placeholder || title
FirstTruthy(values) ==
  IF \E i \in 1..Len(values) : values[i] # ""
  THEN values[CHOOSE i \in 1..Len(values) :
                /\ values[i] # ""
                /\ \A j \in 1..(i - 1) : values[j] = ""]
  ELSE ""

\* content with the picked attributes after it
WithAttrs(content, attrs) ==
  IF attrs = "" THEN content
  ELSE IF content # "" THEN content \o " (" \o attrs \o ")"
  ELSE attrs

ComponentContent(el) ==
  WithAttrs(FirstTruthy(<<NormalizeText(el.text),
                          NormalizeText(Attr(el, "aria-label")),
                          NormalizeText(Attr(el, "placeholder")),
                          NormalizeText(Attr(el, "title"))>>),
            PickAttrs(el))

\* name and content with the key made of them; keyed tells whether the
\* callback of $(candidates).each gets as far as the key for this tag
Keyed(tag, name, content) ==
  [name |-> name,
   content |-> content,
   key |-> name \o "::" \o content,
   keyed |-> tag \in Candidates /\ tag \notin SkipTags /\ content # ""]

\* what the callback of $(candidates).each computes for el before it looks
\* at seen
Component(el) == Keyed(el.tag, ComponentName(el), ComponentContent(el))

\* seen when the callback reaches component i: the keys of the earlier
\* components that got as far as the key
Seen(components, i) ==
  {components[j].key : j \in {k \in 1..(i - 1) : components[k].keyed}}

\* the components the callback pushes, were out never full: those that get
\* as far as the key while seen does not hold it, content cut to 300
\* characters
Unique(components) ==
  LET pushed == SelectSeq([i \in 1..Len(components) |-> i],
                          LAMBDA i : /\ components[i].keyed
                                     /\ components[i].key \notin Seen(components, i))
  IN [k \in 1..Len(pushed) |->
        [name |-> components[pushed[k]].name,
         content |-> Slice(components[pushed[k]].content, 300)]]

\* $(candidates).each((_, el) => ...) until out holds MAX_UNIQUE_COMPONENTS
ExtractUniqueComponents(elements) ==
  Slice(Unique([i \in 1..Len(elements) |-> Component(elements[i])]),
        MAX_UNIQUE_COMPONENTS)

-----------------------------------------------------------------------------
(* The documents handed to extractFromHtml on its own *)

Cell(tag, r, i) ==
  [tag |-> tag, text |-> IF r % 2 = 0 /\ i = 2 THEN " " ELSE " c" \o ToString(i) \o "\n"]

Row(tag, r, nCols) == [i \in 1..nCols |-> Cell(tag, r, i)]

\* a table of nRows data rows and nCols columns whose header row is in a
\* <thead> ("thead"), is a first row of <th> ("th"), or is missing ("none")
Table(kind, nRows, nCols) ==
  [caption |-> " Prices  2026 ",
   thead |-> IF kind = "thead" THEN <<Row("th", 1, nCols)>> ELSE <<>>,
   tbody |-> (IF kind = "th" THEN <<Row("th", 1, nCols)>> ELSE <<>>)
             \o [r \in 1..nRows |-> Row("td", r, nCols)]]

\* a list of one blank <li> and nItems others
List(type, nItems) ==
  [type |-> type, items |-> <<"  ">> \o [i \in 1..nItems |-> "item  " \o ToString(i)]]

Element(tag, text, attrs) == [tag |-> tag, text |-> text, attrs |-> attrs]

RECURSIVE Repeat(_, _)
Repeat(c, n) ==
  IF n = 0 THEN ""
  ELSE IF n = 1 THEN c
  ELSE Repeat(c, n \div 2) \o Repeat(c, n - n \div 2)

LongText == Repeat("x", MaxTextLength - 1)

\* the elements that precede the headings of a document
Preambles ==
  [plain |-> << Element("p", "a paragraph", <<>>),
                Element("input", "", [type |-> "email", placeholder |-> "you@example.com"]),
                Element("input", "", <<>>),
                Element("nav", " Home \n About ", [role |-> "navigation"]) >>,
   repeated |-> << Element("h1", "Welcome", <<>>),
                   Element("h1", " Welcome ", <<>>),
                   Element("button", "", [title |-> "Buy"]),
                   Element("button", "", [title |-> "Buy"]) >>,
   long |-> << Element("pre", LongText \o "a", <<>>),
               Element("pre", LongText \o "b", <<>>),
               Element("pre", LongText \o "a", <<>>) >>]

Headings(n) == [i \in 1..n |-> Element("h2", "Section " \o ToString(i), <<>>)]

Document(tables, lists, elements) ==
  [Page("Doc", "<html>..</html>", 500, <<"p1", "p2">>, <<"a1", "a2", "a3", "a4">>)
     EXCEPT !.tables = tables, !.lists = lists, !.elements = elements]

TableDocs ==
  {Document([t \in 1..nTables |-> IF t = 1 THEN Table(kind, nRows, nCols)
                                           ELSE Table("none", 1, 1)], <<>>, <<>>) :
     nTables \in {1, MAX_TABLES, MaxDocTables},
     nRows \in {0, 1, MAX_TABLE_ROWS, MaxDocRows},
     nCols \in {1, MAX_TABLE_COLS, MaxDocCols},
     kind \in {"thead", "th", "none"}}

ListDocs ==
  {Document(<<>>, [l \in 1..nLists |-> IF l = 1 THEN List(type, nItems)
                                                ELSE List("ul", 1)], <<>>) :
     nLists \in {1, MAX_LISTS, MaxDocLists},
     nItems \in {0, MAX_LIST_ITEMS, MaxDocItems},
     type \in {"ul", "ol"}}

ElementDocs ==
  {Document(<<>>, <<>>, Preambles[pre] \o Headings(n)) :
     pre \in DOMAIN Preambles,
     n \in {0, 1, MAX_UNIQUE_COMPONENTS, MaxDocElements}}

\* a document over every cap at once
FullDoc ==
  Document([t \in 1..MaxDocTables |-> Table("thead", MaxDocRows, MaxDocCols)],
           [l \in 1..MaxDocLists |-> List("ol", MaxDocItems)],
           Headings(MaxDocElements))

Docs == TableDocs \cup ListDocs \cup ElementDocs \cup {FullDoc}

\* the url extractFromHtml resolves against
DocUrl == "https://example.com/"

-----------------------------------------------------------------------------
(* extractFromHtml, on the parsed page.  Images are not modelled.           *)
ExtractFromHtml(page, url) ==
  [title |-> IF page.title # "" THEN page.title ELSE "No title found",
   description |-> IF Len(page.paragraphs) > 0 THEN page.paragraphs[1] ELSE "",
   paragraphs |-> page.paragraphs,
   images |-> <<>>,
   links |-> page.links,
   tables |-> ExtractTables(page.tables),
   lists |-> ExtractLists(page.lists),
   uniqueComponents |-> ExtractUniqueComponents(page.elements),
   rawHtml |-> page.rawHtml,
   techStack |-> DetectTechStack(page.rawHtml, url),
   _bodyTextLength |-> page.bodyTextLength]

-----------------------------------------------------------------------------
(* The heuristic classifier *)

\* the predicate reading html as it came, without toLowerCase
LooksBlockedOrJsRequiredCaseSensitive(html, extracted) ==
  \/ extracted._bodyTextLength < 120
  \/ Includes(html, "enable javascript")
  \/ Includes(html, "please enable cookies")
  \/ (Includes(html, "attention required") /\ Includes(html, "cloudflare"))
  \/ (Includes(html, "cf-chl") \/ Includes(html, "challenge-platform"))
  \/ Includes(html, "access denied")

LooksBlockedOrJsRequired(html, extracted) ==
  LET lower == ToLowerCase(html)
  IN \/ extracted._bodyTextLength < 120
     \/ Includes(lower, "enable javascript")
     \/ Includes(lower, "please enable cookies")
     \/ (Includes(lower, "attention required") /\ Includes(lower, "cloudflare"))
     \/ (Includes(lower, "cf-chl") \/ Includes(lower, "challenge-platform"))
     \/ Includes(lower, "access denied")

\* the predicate with links < 3 for links <= 3
LooksEmptyExtractionFewerLinks(extracted) ==
  LET paras == Len(extracted.paragraphs)
      links == Len(extracted.links)
      bodyLen == extracted._bodyTextLength
  IN \/ (bodyLen < 200 /\ paras < 2)
     \/ (paras = 0 /\ links < 3)

LooksEmptyExtraction(extracted) ==
  LET paras == Len(extracted.paragraphs)
      links == Len(extracted.links)
      bodyLen == extracted._bodyTextLength
  IN \/ (bodyLen < 200 /\ paras < 2)
     \/ (paras = 0 /\ links <= 3)

-----------------------------------------------------------------------------
(* Program constants *)

\* const maxAttempts = 6 of tryExtractLoop
maxAttempts == 6

-----------------------------------------------------------------------------
(* The environment scrapeWithBrowser reads *)

Envs ==
  [serverless : {TRUE}, chromiumPath : {"", "/tmp/chromium"},
   envPath : {""}, platform : {"linux"}]
  \cup
  [serverless : {FALSE}, chromiumPath : {""},
   envPath : {"", "/usr/bin/chromium"}, platform : {"win32", "darwin", "linux"}]

\* guessLocalExecutablePath; "" stands for null
GuessLocalExecutablePath(e) ==
  IF e.envPath # "" THEN e.envPath
  ELSE IF e.platform = "win32"
  THEN "C:\\Program Files\\Google\\Chrome\\Application\\chrome.exe"
  ELSE IF e.platform = "darwin"
  THEN "/Applications/Google Chrome.app/Contents/MacOS/Google Chrome"
  ELSE ""

-----------------------------------------------------------------------------
(* What the collaborators can answer *)

\* statuses of the response to axios.get (redirects already followed)
HttpStatuses == {200, 403, 404, 503}

\* messages of the errors axios.get throws without a response
TransportErrors == {"getaddrinfo ENOTFOUND example.com", "connect ETIMEDOUT 93.184.216.34:443"}

\* axios.get: a response [status, data], or a transport error
GetOutcomes ==
  [kind : {"response"}, status : HttpStatuses, data : Pages, message : {""}]
  \cup
  [kind : {"error"}, status : {0}, data : {AllPages[1]}, message : TransportErrors]

\* axios.post to the summarization service: a body, or an error with or
\* without a response status (0: no response)
PostOutcomes ==
  [kind : {"response"}, status : {200}, data : {"- bullet 1 - bullet 2"}]
  \cup
  [kind : {"error"}, status : {0, 429, 500}, data : {""}]

\* messages of the errors puppeteer throws
LaunchError == "Failed to launch the browser process!"
PageError == "Protocol error: Target closed"
GotoError == "Navigation timeout of 30000 ms exceeded"
ChromiumError == "The input directory does not exist."

-----------------------------------------------------------------------------
(* Promises *)

Pending(st) == [st |-> st, value |-> Undefined, message |-> Null]
Resolved(v) == [st |-> "resolved", value |-> v, message |-> Null]
Rejected(m) == [st |-> "rejected", value |-> Undefined, message |-> m]

Settled(task) == task.st \in {"resolved", "rejected"}

-----------------------------------------------------------------------------
(* scrapeWithHttp, from the answer of axios.get on *)

\* const html = response.data, when scrapeWithHttp gets that far
HtmlOf(outcome) ==
  IF outcome.kind = "response" /\ outcome.status < 400 THEN outcome.data ELSE Undefined

\* response.status, 0 when axios.get threw without a response
StatusOf(outcome) == IF outcome.kind = "response" THEN outcome.status ELSE 0

\* the promise of scrapeWithHttp before axios.get has settled
HttpPending(st) == Spread(Pending(st), [html |-> Undefined, status |-> 0])

\* scrapeWithHttp without the heuristic on the extraction
ScrapeWithHttpUnchecked(outcome, url) ==
  IF outcome.kind = "error" THEN Rejected(outcome.message)
  ELSE IF ~(outcome.status < 500)
  THEN Rejected("Request failed with status code " \o ToString(outcome.status))
  ELSE IF outcome.status >= 400
  THEN Rejected("HTTP_ERROR_" \o ToString(outcome.status))
  ELSE Resolved(Rest(ExtractFromHtml(outcome.data, url), "_bodyTextLength"))

ScrapeWithHttp(outcome, url) ==
  IF outcome.kind = "error" THEN Rejected(outcome.message)
  ELSE IF ~(outcome.status < 500)   \* validateStatus
  THEN Rejected("Request failed with status code " \o ToString(outcome.status))
  ELSE IF outcome.status >= 400
  THEN Rejected("HTTP_ERROR_" \o ToString(outcome.status))
  ELSE LET extracted == ExtractFromHtml(outcome.data, url)
       IN IF LooksBlockedOrJsRequired(outcome.data.rawHtml, extracted)
          THEN Rejected("JAVASCRIPT_RENDERED")
          ELSE Resolved(Rest(extracted, "_bodyTextLength"))

\* every way the promise of scrapeWithHttp(url) can settle
HttpSettlements ==
  [u \in NormalizedUrls |->
     {Spread(ScrapeWithHttp(o, u), [html |-> HtmlOf(o), status |-> StatusOf(o)]) :
        o \in GetOutcomes}]

\* one attempt that leaves _bodyTextLength to looksBlockedOrJsRequired alone
TryExtractBlockedOnly(page, url) ==
  LET extracted == ExtractFromHtml(page, url)
  IN IF ~LooksBlockedOrJsRequired(page.rawHtml, extracted)
     THEN extracted
     ELSE Undefined

\* one attempt of tryExtractLoop on the captured page: the extraction, or Undefined
TryExtract(page, url) ==
  LET extracted == ExtractFromHtml(page, url)
  IN IF ~LooksBlockedOrJsRequired(page.rawHtml, extracted) /\ ~LooksEmptyExtraction(extracted)
     THEN extracted
     ELSE Undefined

\* the result of one capture of page.content() for url, by the page captured
Captures == [u \in NormalizedUrls |-> [p \in Pages |-> TryExtract(p, u)]]

-----------------------------------------------------------------------------
(* scrapeAndSummarize: the errors it throws and the record it returns *)

\* new Date().toISOString()
Now == "2026-01-01T00:00:00.000Z"

UrlRequiredError ==
  [message |-> "URL_REQUIRED", statusCode |-> 400,
   publicPayload |-> [error |-> "URL is required"]]

InvalidUrlError(code, url) ==
  [message |-> code, statusCode |-> 400,
   publicPayload |->
     [error |-> "Invalid URL", errorType |-> code,
      message |-> IF code = "INVALID_URL_PROTOCOL"
                  THEN "Only http(s) URLs are allowed."
                  ELSE "Invalid URL format",
      url |-> url]]

\* err?.message || null
MessageOrNull(m) == IF m = "" THEN Null ELSE m

\* details.x?.includes('TIMEOUT')
IncludesTimeout(m) == m # Null /\ Includes(m, "TIMEOUT")

\* the mapping with isBlocked compared against the public code
ErrorTypeOfBlockedMisnamed(details) ==
  LET isTimeout == IncludesTimeout(details.httpError) \/ IncludesTimeout(details.browserError)
      isBlocked == details.browserError = "BLOCKED"
      isLoginOrBlocked == details.browserError = "LOGIN_OR_BLOCKED"
  IN IF isTimeout THEN "TIMEOUT"
     ELSE IF isLoginOrBlocked THEN "LOGIN_REQUIRED"
     ELSE IF isBlocked THEN "BLOCKED"
     ELSE "SCRAPE_ERROR"

\* the mapping with isBlocked tested before isTimeout
ErrorTypeOfBlockedFirst(details) ==
  LET isTimeout == IncludesTimeout(details.httpError) \/ IncludesTimeout(details.browserError)
      isBlocked == details.browserError = "BLOCKED_OR_EMPTY"
      isLoginOrBlocked == details.browserError = "LOGIN_OR_BLOCKED"
  IN IF isBlocked THEN "BLOCKED"
     ELSE IF isTimeout THEN "TIMEOUT"
     ELSE IF isLoginOrBlocked THEN "LOGIN_REQUIRED"
     ELSE "SCRAPE_ERROR"

\* the mapping with isTimeout reading the HTTP error only
ErrorTypeOfHttpTimeoutOnly(details) ==
  LET isTimeout == IncludesTimeout(details.httpError)
      isBlocked == details.browserError = "BLOCKED_OR_EMPTY"
      isLoginOrBlocked == details.browserError = "LOGIN_OR_BLOCKED"
  IN IF isTimeout THEN "TIMEOUT"
     ELSE IF isLoginOrBlocked THEN "LOGIN_REQUIRED"
     ELSE IF isBlocked THEN "BLOCKED"
     ELSE "SCRAPE_ERROR"

ErrorTypeOf(details) ==
  LET isTimeout == IncludesTimeout(details.httpError) \/ IncludesTimeout(details.browserError)
      isBlocked == details.browserError = "BLOCKED_OR_EMPTY"
      isLoginOrBlocked == details.browserError = "LOGIN_OR_BLOCKED"
  IN IF isTimeout THEN "TIMEOUT"
     ELSE IF isLoginOrBlocked THEN "LOGIN_REQUIRED"
     ELSE IF isBlocked THEN "BLOCKED"
     ELSE "SCRAPE_ERROR"

\* publicPayload.message (the texts without their leading warning sign, the
\* login text cut after its first sentence)
PublicMessageOf(errorType) ==
  CASE errorType = "TIMEOUT" ->
         "Scraping timed out on the server. This often happens on serverless hosts for heavy pages."
    [] errorType = "LOGIN_REQUIRED" ->
         "This page likely requires login or restricts automated access."
    [] errorType = "BLOCKED" ->
         "This site appears to block scraping from server IPs (bot protection/captcha)."
    [] OTHER ->
         "Unable to scrape this site. It may be blocking automation or requires interaction/login."

\* the catch block of the browser attempt
ScrapeFailedError(httpErr, browserErrMessage, url) ==
  LET details == [httpError |-> IF httpErr = Null THEN Null ELSE MessageOrNull(httpErr),
                  browserError |-> MessageOrNull(browserErrMessage)]
      errorType == ErrorTypeOf(details)
  IN [message |-> errorType, statusCode |-> 422,
      publicPayload |->
        [error |-> "Scraping failed", errorType |-> errorType,
         message |-> PublicMessageOf(errorType),
         url |-> url, details |-> details, timestamp |-> Now]]

\* the returned record: { url, methodUsed, summary, ...scraped, scrapedAt }
Assemble(url, method, summary, s) ==
  Spread(Spread([url |-> url, methodUsed |-> method, summary |-> summary], s),
         [scrapedAt |-> Now])

RateLimitSummary ==
  "AI service is currently busy (rate limit). You can still view the scraped content and use chat later."
UnavailableSummary ==
  "AI summary unavailable. You can still view the scraped content below."

\* the catch without the test of apiError.response?.status === 429
SummaryOfOneFallback(outcome) ==
  IF outcome.kind = "response" THEN outcome.data ELSE UnavailableSummary

\* the summary the try/catch around axios.post leaves
SummaryOf(outcome) ==
  IF outcome.kind = "response" THEN outcome.data
  ELSE IF outcome.status = 429 THEN RateLimitSummary
  ELSE UnavailableSummary

-----------------------------------------------------------------------------
(* The entry points: POST(request) of route.js and the callback of          *)
(* Actor.main of main.js                                                    *)

\* a POST request whose body is JSON or is not, and an Actor run; both are
\* at their first await, request.json() and Actor.getInput()
Callers ==
  [kind : {"POST"}, body : {"json", "malformed"}, st : {"entry"}]
  \cup
  [kind : {"Actor"}, body : {"json"}, st : {"entry"}]

\* no Response returned, an empty default dataset, no record under OUTPUT
NothingDelivered == [response |-> Undefined, dataset |-> <<>>, OUTPUT |-> Undefined]

\* the SyntaxError request.json() throws: no statusCode (0), no publicPayload
BodySyntaxError ==
  [message |-> "Unexpected token < in JSON at position 0", statusCode |-> 0,
   publicPayload |-> Undefined]

InternalServerError ==
  [error |-> "Internal server error",
   message |-> "An unexpected error occurred while processing your request.",
   timestamp |-> Now]

\* a catch that answers 500 whatever was thrown
PostCatchGenericOnly(error) == [status |-> 500, body |-> InternalServerError]

\* the catch of POST
PostCatch(error) ==
  IF error.publicPayload # Undefined /\ error.statusCode # 0
  THEN [status |-> error.statusCode, body |-> error.publicPayload]
  ELSE [status |-> 500, body |-> InternalServerError]

\* scrapeAndSummarize(input) has been called and has not been answered yet
Called == caller.st = "called"

-----------------------------------------------------------------------------
(* The initial state: an entry point has been invoked with the input *)

Init ==
  /\ input \in [url : RawUrls, prompt : Prompts]
  /\ env \in Envs
  /\ pc = "start"
  /\ normalizedUrl = Null
  /\ scraped = Undefined
  /\ methodUsed = Null
  /\ httpError = Null
  /\ httpTask = HttpPending("idle")
  /\ browserTask = [st |-> "idle", attempt |-> 0, out |-> Pending("idle"),
                    html |-> Undefined, captures |-> 0, rejections |-> 0,
                    scrolls |-> 0, waited |-> 0]
  /\ browsers = [launched |-> 0, closed |-> 0]
  /\ postAnswer = Undefined
  /\ calls = [get |-> 0, post |-> 0]
  /\ result = Undefined
  /\ thrown = Undefined
  /\ caller \in Callers
  /\ caller.body = "malformed" => input = [url |-> "", prompt |-> ""]
  /\ delivered = NothingDelivered
  /\ document = Undefined
  /\ extraction = Undefined
  /\ sample = Undefined
  /\ verdict = NoVerdict

-----------------------------------------------------------------------------
(* scrapeAndSummarize up to its first await *)

\* if (!url) throw URL_REQUIRED
UrlRequired ==
  /\ pc = "start"
  /\ Called
  /\ input.url = ""
  /\ thrown' = UrlRequiredError
  /\ pc' = "failed"
  /\ UNCHANGED <<outerVars, postAnswer, input, env, normalizedUrl, scraped, methodUsed, httpError,
                 httpTask, browserTask, browsers, calls, result>>

\* validateScrapeUrl threw
InvalidUrl ==
  /\ pc = "start"
  /\ Called
  /\ input.url # ""
  /\ ValidateScrapeUrl(input.url).threw
  /\ LET e == ValidateScrapeUrl(input.url)
         code == IF e.message = "" THEN "INVALID_URL" ELSE e.message
     IN thrown' = InvalidUrlError(code, input.url)
  /\ pc' = "failed"
  /\ UNCHANGED <<outerVars, postAnswer, input, env, normalizedUrl, scraped, methodUsed, httpError,
                 httpTask, browserTask, browsers, calls, result>>

\* the url is valid: scrapeWithHttp is called and issues its axios.get
StartHttp ==
  /\ pc = "start"
  /\ Called
  /\ input.url # ""
  /\ ~ValidateScrapeUrl(input.url).threw
  /\ normalizedUrl' = ValidateScrapeUrl(input.url).href
  /\ methodUsed' = "HTTP"
  /\ httpError' = Null
  /\ calls' = [calls EXCEPT !.get = @ + 1]
  /\ httpTask' = HttpPending("pending")
  /\ pc' = "http"
  /\ UNCHANGED <<outerVars, postAnswer, input, env, scraped, browserTask, browsers, result, thrown>>

-----------------------------------------------------------------------------
(* Continuations shared by the handlers of scrapeAndSummarize *)

\* scrapeWithBrowser(normalizedUrl) is called and runs to its first await:
\* chromium.executablePath() when serverless, puppeteer.launch otherwise,
\* unless no local executable path is configured
CallBrowser ==
  /\ pc' = "browser"
  /\ browserTask' =
       IF env.serverless
       THEN [browserTask EXCEPT !.st = "execPath"]
       ELSE IF GuessLocalExecutablePath(env) = ""
       THEN [browserTask EXCEPT !.st = "rejected",
                                !.out = Rejected("LOCAL_BROWSER_EXECUTABLE_NOT_CONFIGURED")]
       ELSE [browserTask EXCEPT !.st = "launching"]

\* the summarization requested whether or not a prompt was supplied
AfterScrapeAlwaysSummarizes(s, m) ==
  /\ scraped' = s
  /\ methodUsed' = m
  /\ calls' = [calls EXCEPT !.post = @ + 1]
  /\ pc' = "summarize"
  /\ result' = result

\* scraping succeeded with extraction s by method m: the digest is built and,
\* if a prompt was supplied, axios.post is issued; otherwise the record returns
AfterScrape(s, m) ==
  /\ scraped' = s
  /\ methodUsed' = m
  /\ IF input.prompt # ""
     THEN /\ calls' = [calls EXCEPT !.post = @ + 1]
          /\ pc' = "summarize"
          /\ result' = result
     ELSE /\ calls' = calls
          /\ pc' = "done"
          /\ result' = Assemble(normalizedUrl, m, "", s)

-----------------------------------------------------------------------------
(* The HTTP attempt: withTimeout(scrapeWithHttp(url), 15000, 'HTTP_TIMEOUT') *)

\* a fetcher that retries once: a failed scrapeWithHttp issues axios.get again
HttpGetSettlesRetries ==
  /\ httpTask.st = "pending"
  /\ \E settlement \in HttpSettlements[normalizedUrl] :
       IF settlement.st = "rejected" /\ calls.get < 2
       THEN /\ calls' = [calls EXCEPT !.get = @ + 1]
            /\ httpTask' = httpTask
       ELSE /\ calls' = calls
            /\ httpTask' = settlement
  /\ UNCHANGED <<outerVars, postAnswer, input, env, pc, normalizedUrl, scraped, methodUsed, httpError,
                 browserTask, browsers, result, thrown>>

\* axios.get settles and scrapeWithHttp runs to its end; this happens whether
\* or not the race has already been lost to the timer
HttpGetSettles ==
  /\ httpTask.st = "pending"
  /\ \E settlement \in HttpSettlements[normalizedUrl] : httpTask' = settlement
  /\ UNCHANGED <<outerVars, postAnswer, input, env, pc, normalizedUrl, scraped, methodUsed, httpError,
                 browserTask, browsers, calls, result, thrown>>

\* the race resolved with the HTTP extraction
HttpRaceResolved ==
  /\ pc = "http"
  /\ httpTask.st = "resolved"
  /\ AfterScrape(httpTask.value, "HTTP")
  /\ UNCHANGED <<outerVars, postAnswer, input, env, normalizedUrl, httpError, httpTask, browserTask,
                 browsers, thrown>>

\* the HTTP attempt without its try/catch: the error of scrapeWithHttp leaves
\* scrapeAndSummarize
HttpRaceRejectedAborts ==
  /\ pc = "http"
  /\ httpTask.st = "rejected"
  /\ thrown' = [message |-> httpTask.message, statusCode |-> 500,
                publicPayload |-> Undefined]
  /\ pc' = "failed"
  /\ UNCHANGED <<outerVars, postAnswer, input, env, normalizedUrl, scraped, methodUsed, httpError,
                 httpTask, browserTask, browsers, calls, result>>

\* the race rejected with the error of scrapeWithHttp: catch, then the browser
HttpRaceRejected ==
  /\ pc = "http"
  /\ httpTask.st = "rejected"
  /\ httpError' = httpTask.message
  /\ CallBrowser
  /\ UNCHANGED <<outerVars, postAnswer, input, env, normalizedUrl, scraped, methodUsed, httpTask,
                 browsers, calls, result, thrown>>

\* the 15s timer fired first: catch HTTP_TIMEOUT, then the browser
HttpTimeout ==
  /\ pc = "http"
  /\ httpTask.st = "pending"
  /\ httpError' = "HTTP_TIMEOUT"
  /\ CallBrowser
  /\ UNCHANGED <<outerVars, postAnswer, input, env, normalizedUrl, scraped, methodUsed, httpTask,
                 browsers, calls, result, thrown>>

-----------------------------------------------------------------------------
(* scrapeWithBrowser, one action per await *)

BrowserFrame == UNCHANGED <<outerVars, postAnswer, input, env, pc, normalizedUrl, scraped, methodUsed,
                            httpError, httpTask, calls, result, thrown>>

\* an exception with no finally block: the promise rejects at once
ThrowWithoutFinally(message) ==
  browserTask' = [browserTask EXCEPT !.st = "rejected", !.out = Rejected(message)]

\* an exception inside try { ... }: the finally block runs browser.close()
\* before the promise rejects
ThrowInTry(message) ==
  browserTask' = [browserTask EXCEPT !.st = "closing", !.out = Rejected(message)]

\* chromium.executablePath() checked only after puppeteer.launch
ExecPathCheckedAfterLaunch ==
  /\ browserTask.st = "execPath"
  /\ IF env.chromiumPath = ""
     THEN /\ browsers' = [browsers EXCEPT !.launched = @ + 1]
          /\ browserTask' = [browserTask EXCEPT !.st = "rejected",
                                   !.out = Rejected("BROWSER_EXECUTABLE_NOT_FOUND")]
     ELSE /\ browsers' = browsers
          /\ browserTask' = [browserTask EXCEPT !.st = "launching"]
  /\ BrowserFrame

\* await chromium.executablePath() returned
ExecPathSettles ==
  /\ browserTask.st = "execPath"
  /\ browserTask' =
       IF env.chromiumPath = ""
       THEN [browserTask EXCEPT !.st = "rejected",
                                !.out = Rejected("BROWSER_EXECUTABLE_NOT_FOUND")]
       ELSE [browserTask EXCEPT !.st = "launching"]
  /\ UNCHANGED browsers
  /\ BrowserFrame

\* await chromium.executablePath() threw
ExecPathThrows ==
  /\ browserTask.st = "execPath"
  /\ browserTask' = [browserTask EXCEPT !.st = "rejected", !.out = Rejected(ChromiumError)]
  /\ UNCHANGED browsers
  /\ BrowserFrame

\* await puppeteer.launch returned a browser
LaunchSettles ==
  /\ browserTask.st = "launching"
  /\ browsers' = [browsers EXCEPT !.launched = @ + 1]
  /\ browserTask' = [browserTask EXCEPT !.st = "setup"]
  /\ BrowserFrame

\* await puppeteer.launch threw: no browser exists
LaunchThrows ==
  /\ browserTask.st = "launching"
  /\ browserTask' = [browserTask EXCEPT !.st = "rejected", !.out = Rejected(LaunchError)]
  /\ UNCHANGED browsers
  /\ BrowserFrame

\* newPage, setUserAgent, setExtraHTTPHeaders, setRequestInterception
PageSetup ==
  /\ browserTask.st = "setup"
  /\ \/ browserTask' = [browserTask EXCEPT !.st = "goto"]
     \/ ThrowInTry(PageError)
  /\ UNCHANGED browsers
  /\ BrowserFrame

\* await page.goto
Goto ==
  /\ browserTask.st = "goto"
  /\ \/ browserTask' = [browserTask EXCEPT !.st = "waitFn"]
     \/ ThrowInTry(GotoError)
  /\ UNCHANGED browsers
  /\ BrowserFrame

\* await page.waitForFunction returned or threw (ignored); tryExtractLoop
\* starts with attempt = 0 and awaits tryNetworkIdle
WaitForFunction ==
  /\ browserTask.st = "waitFn"
  /\ browserTask' = [browserTask EXCEPT !.st = "netIdle", !.attempt = 0]
  /\ UNCHANGED browsers
  /\ BrowserFrame

\* await tryNetworkIdle(8000) returned (its errors are ignored)
NetworkIdle ==
  /\ browserTask.st = "netIdle"
  /\ browserTask' = [browserTask EXCEPT !.st = "content"]
  /\ UNCHANGED browsers
  /\ BrowserFrame

\* await page.content() returned html: extract, classify, accept or scroll
Content ==
  /\ browserTask.st = "content"
  /\ \E html \in Pages :
       LET extracted == Captures[normalizedUrl][html]
       IN browserTask' =
            IF extracted # Undefined
            THEN [browserTask EXCEPT !.st = "closing",
                                     !.out = Resolved(Rest(extracted, "_bodyTextLength")),
                                     !.html = html,
                                     !.captures = @ + 1,
                                     !.waited = 0]
            ELSE [browserTask EXCEPT !.st = "scroll",
                                     !.captures = @ + 1,
                                     !.rejections = @ + 1,
                                     !.scrolls = @ + 1,
                                     !.waited = 0]
  /\ UNCHANGED browsers
  /\ BrowserFrame

\* await page.content() threw
ContentThrows ==
  /\ browserTask.st = "content"
  /\ ThrowInTry(PageError)
  /\ UNCHANGED browsers
  /\ BrowserFrame

\* the argument of page.waitForTimeout
ScrollDelayFlat(attempt) == 900

ScrollDelay(attempt) == 900 + attempt * 200

\* a loop that tests attempt <= maxAttempts
NextAttemptOneMore(task, waited) ==
  IF task.attempt + 1 <= maxAttempts
  THEN [task EXCEPT !.st = "netIdle", !.attempt = @ + 1, !.waited = waited]
  ELSE [task EXCEPT !.st = "closing", !.attempt = @ + 1,
                    !.out = Rejected("BLOCKED_OR_EMPTY")]

\* the end of one iteration of for (attempt = 0; attempt < maxAttempts;
\* attempt++): the next tryNetworkIdle, or return null and BLOCKED_OR_EMPTY
\* is thrown
NextAttempt(task, waited) ==
  IF task.attempt + 1 < maxAttempts
  THEN [task EXCEPT !.st = "netIdle", !.attempt = @ + 1, !.waited = waited]
  ELSE [task EXCEPT !.st = "closing", !.attempt = @ + 1,
                    !.out = Rejected("BLOCKED_OR_EMPTY")]

\* await page.evaluate(scrollBy) returned, and page.waitForTimeout is
\* called; or it threw, which the catch ignores
Scroll ==
  /\ browserTask.st = "scroll"
  /\ \/ browserTask' = [browserTask EXCEPT !.st = "wait"]
     \/ browserTask' = NextAttempt(browserTask, 0)
  /\ UNCHANGED browsers
  /\ BrowserFrame

\* await page.waitForTimeout(900 + attempt * 200) returned after the delay;
\* or it threw, which the catch ignores
WaitForTimeout ==
  /\ browserTask.st = "wait"
  /\ \/ browserTask' = NextAttempt(browserTask, ScrollDelay(browserTask.attempt))
     \/ browserTask' = NextAttempt(browserTask, 0)
  /\ UNCHANGED browsers
  /\ BrowserFrame

\* finally { await browser.close() }: the promise settles afterwards
Close ==
  /\ browserTask.st = "closing"
  /\ browsers' = [browsers EXCEPT !.closed = @ + 1]
  /\ browserTask' = [browserTask EXCEPT !.st = browserTask.out.st]
  /\ BrowserFrame

-----------------------------------------------------------------------------
(* The browser attempt: withTimeout(scrapeWithBrowser(url), 25000, 'BROWSER_TIMEOUT') *)

\* the browser attempt giving way to an HTTP extraction that arrived late
BrowserRaceResolvedPrefersHttp ==
  /\ pc = "browser"
  /\ browserTask.st = "resolved"
  /\ IF httpTask.st = "resolved"
     THEN AfterScrape(httpTask.value, "HTTP")
     ELSE AfterScrape(browserTask.out.value, "BROWSER")
  /\ UNCHANGED <<outerVars, postAnswer, input, env, normalizedUrl, httpError, httpTask, browserTask,
                 browsers, thrown>>

\* the browser attempt without methodUsed = 'BROWSER'
BrowserRaceResolvedKeepsMethod ==
  /\ pc = "browser"
  /\ browserTask.st = "resolved"
  /\ AfterScrape(browserTask.out.value, methodUsed)
  /\ UNCHANGED <<outerVars, postAnswer, input, env, normalizedUrl, httpError, httpTask, browserTask,
                 browsers, thrown>>

\* the race resolved with the browser extraction
BrowserRaceResolved ==
  /\ pc = "browser"
  /\ browserTask.st = "resolved"
  /\ AfterScrape(browserTask.out.value, "BROWSER")
  /\ UNCHANGED <<outerVars, postAnswer, input, env, normalizedUrl, httpError, httpTask, browserTask,
                 browsers, thrown>>

\* the race rejected with the error of scrapeWithBrowser
BrowserRaceRejected ==
  /\ pc = "browser"
  /\ browserTask.st = "rejected"
  /\ thrown' = ScrapeFailedError(httpError, browserTask.out.message, normalizedUrl)
  /\ pc' = "failed"
  /\ UNCHANGED <<outerVars, postAnswer, input, env, normalizedUrl, scraped, methodUsed, httpError,
                 httpTask, browserTask, browsers, calls, result>>

\* the 25s timer fired first; scrapeWithBrowser goes on in the background
BrowserTimeout ==
  /\ pc = "browser"
  /\ browserTask.st \notin {"resolved", "rejected"}
  /\ thrown' = ScrapeFailedError(httpError, "BROWSER_TIMEOUT", normalizedUrl)
  /\ pc' = "failed"
  /\ UNCHANGED <<outerVars, postAnswer, input, env, normalizedUrl, scraped, methodUsed, httpError,
                 httpTask, browserTask, browsers, calls, result>>

-----------------------------------------------------------------------------
(* Summarization: try { res = await axios.post(...) } catch { fallback } *)

\* axios.post without the catch: an error other than 429 leaves
\* scrapeAndSummarize
SummarizeRethrows ==
  /\ pc = "summarize"
  /\ \E outcome \in PostOutcomes :
       IF outcome.kind = "error" /\ outcome.status # 429
       THEN /\ pc' = "failed"
            /\ thrown' = [message |-> "Request failed", statusCode |-> 500,
                          publicPayload |-> Undefined]
            /\ result' = result
       ELSE /\ pc' = "done"
            /\ thrown' = thrown
            /\ result' = Assemble(normalizedUrl, methodUsed, SummaryOf(outcome), scraped)
  /\ UNCHANGED <<outerVars, postAnswer, input, env, normalizedUrl, scraped, methodUsed, httpError,
                 httpTask, browserTask, browsers, calls>>

SummarizeSettles ==
  /\ pc = "summarize"
  /\ \E outcome \in PostOutcomes :
       /\ postAnswer' = outcome
       /\ result' = Assemble(normalizedUrl, methodUsed, SummaryOf(outcome), scraped)
  /\ pc' = "done"
  /\ UNCHANGED <<outerVars, input, env, normalizedUrl, scraped, methodUsed, httpError,
                 httpTask, browserTask, browsers, calls, thrown>>

-----------------------------------------------------------------------------
(* POST(request) *)

CallerFrame == UNCHANGED <<extractorVars, classifierVars, postAnswer, input, env, pc, normalizedUrl,
                           scraped, methodUsed, httpError, httpTask, browserTask,
                           browsers, calls, result, thrown>>

\* await request.json() returned the input: scrapeAndSummarize(input) is called
PostParsesBody ==
  /\ caller.kind = "POST"
  /\ caller.st = "entry"
  /\ caller.body = "json"
  /\ caller' = [caller EXCEPT !.st = "called"]
  /\ UNCHANGED delivered
  /\ CallerFrame

\* await request.json() threw: the catch answers
PostBodyMalformed ==
  /\ caller.kind = "POST"
  /\ caller.st = "entry"
  /\ caller.body = "malformed"
  /\ caller' = [caller EXCEPT !.st = "responded"]
  /\ delivered' = [delivered EXCEPT !.response = PostCatch(BodySyntaxError)]
  /\ CallerFrame

\* await scrapeAndSummarize(input) returned: Response.json(output)
PostReturns ==
  /\ caller.kind = "POST"
  /\ Called
  /\ pc = "done"
  /\ caller' = [caller EXCEPT !.st = "responded"]
  /\ delivered' = [delivered EXCEPT !.response = [status |-> 200, body |-> result]]
  /\ CallerFrame

\* await scrapeAndSummarize(input) threw: the catch answers
PostCatches ==
  /\ caller.kind = "POST"
  /\ Called
  /\ pc = "failed"
  /\ caller' = [caller EXCEPT !.st = "responded"]
  /\ delivered' = [delivered EXCEPT !.response = PostCatch(thrown)]
  /\ CallerFrame

-----------------------------------------------------------------------------
(* The callback of Actor.main.  Actor.pushData and Actor.setValue are taken *)
(* to succeed.                                                              *)

\* await Actor.getInput() returned: without a url the callback throws,
\* otherwise scrapeAndSummarize(input) is called
ActorGetInput ==
  /\ caller.kind = "Actor"
  /\ caller.st = "entry"
  /\ caller' = [caller EXCEPT !.st = IF input.url = "" THEN "failed" ELSE "called"]
  /\ UNCHANGED delivered
  /\ CallerFrame

\* Actor.pushData in a finally block: it runs however scrapeAndSummarize ended
ActorPushDataAlways ==
  /\ caller.kind = "Actor"
  /\ Called
  /\ pc \in {"done", "failed"}
  /\ caller' = [caller EXCEPT !.st = "pushed"]
  /\ delivered' = [delivered EXCEPT !.dataset = Append(@, result)]
  /\ CallerFrame

\* await scrapeAndSummarize(input) returned output; await Actor.pushData(output)
ActorPushData ==
  /\ caller.kind = "Actor"
  /\ Called
  /\ pc = "done"
  /\ caller' = [caller EXCEPT !.st = "pushed"]
  /\ delivered' = [delivered EXCEPT !.dataset = Append(@, result)]
  /\ CallerFrame

\* Actor.pushData returned; await Actor.setValue('OUTPUT', output), and the
\* callback returns
ActorSetValue ==
  /\ caller.kind = "Actor"
  /\ caller.st = "pushed"
  /\ caller' = [caller EXCEPT !.st = "exited"]
  /\ delivered' = [delivered EXCEPT !.OUTPUT = result]
  /\ CallerFrame

\* await scrapeAndSummarize(input) threw: the callback throws
ActorThrows ==
  /\ caller.kind = "Actor"
  /\ Called
  /\ pc = "failed"
  /\ caller' = [caller EXCEPT !.st = "failed"]
  /\ UNCHANGED delivered
  /\ CallerFrame

-----------------------------------------------------------------------------

Next ==
  \/ PostParsesBody
  \/ PostBodyMalformed
  \/ PostReturns
  \/ PostCatches
  \/ ActorGetInput
  \/ ActorPushData
  \/ ActorSetValue
  \/ ActorThrows
  \/ UrlRequired
  \/ InvalidUrl
  \/ StartHttp
  \/ HttpGetSettles
  \/ HttpRaceResolved
  \/ HttpRaceRejected
  \/ HttpTimeout
  \/ ExecPathSettles
  \/ ExecPathThrows
  \/ LaunchSettles
  \/ LaunchThrows
  \/ PageSetup
  \/ Goto
  \/ WaitForFunction
  \/ NetworkIdle
  \/ Content
  \/ ContentThrows
  \/ Scroll
  \/ WaitForTimeout
  \/ Close
  \/ BrowserRaceResolved
  \/ BrowserRaceRejected
  \/ BrowserTimeout
  \/ SummarizeSettles

Spec == Init /\ [][Next]_vars

-----------------------------------------------------------------------------
(* extractFromHtml on its own: a document is parsed and extracted *)

InitExtract ==
  /\ document \in Docs
  /\ extraction = Undefined
  /\ input = [url |-> DocUrl, prompt |-> ""]
  /\ env \in {e \in Envs : e.serverless /\ e.chromiumPath = ""}
  /\ pc = "start"
  /\ normalizedUrl = Null
  /\ scraped = Undefined
  /\ methodUsed = Null
  /\ httpError = Null
  /\ httpTask = HttpPending("idle")
  /\ browserTask = [st |-> "idle", attempt |-> 0, out |-> Pending("idle"),
                    html |-> Undefined, captures |-> 0, rejections |-> 0,
                    scrolls |-> 0, waited |-> 0]
  /\ browsers = [launched |-> 0, closed |-> 0]
  /\ postAnswer = Undefined
  /\ calls = [get |-> 0, post |-> 0]
  /\ result = Undefined
  /\ thrown = Undefined
  /\ caller = [kind |-> "none", body |-> "json", st |-> "none"]
  /\ delivered = NothingDelivered
  /\ sample = Undefined
  /\ verdict = NoVerdict

\* extractFromHtml(html, url) returns
Extract ==
  /\ document # Undefined
  /\ extraction = Undefined
  /\ extraction' = ExtractFromHtml(document, DocUrl)
  /\ UNCHANGED <<document, classifierVars, callerVars, postAnswer, input, env, pc, normalizedUrl,
                 scraped, methodUsed, httpError, httpTask, browserTask, browsers,
                 calls, result, thrown>>

NextExtract == Extract

SpecExtract == InitExtract /\ [][NextExtract]_vars

-----------------------------------------------------------------------------
(* The two predicates on their own *)

\* the fragments an html is written from, and the phrase each one holds
Fragments ==
  << [holds |-> "enable javascript",
      written |-> "<noscript>You need to Enable JavaScript to run this app.</noscript>"],
     [holds |-> "please enable cookies",
      written |-> "<p>Please Enable Cookies.</p>"],
     [holds |-> "attention required",
      written |-> "<h1>Attention Required!</h1>"],
     [holds |-> "cloudflare",
      written |-> "<span>Performance by CloudFlare</span>"],
     [holds |-> "cf-chl",
      written |-> "<form id=CF-CHL-widget></form>"],
     [holds |-> "challenge-platform",
      written |-> "<script src=/cdn-cgi/challenge-platform/h/b.js></script>"],
     [holds |-> "access denied",
      written |-> "<h1>ACCESS DENIED</h1>"] >>

\* the html written with the fragments of the phrases in held, in order
Html(held) ==
  "<html><body>"
  \o Join([i \in 1..Len(Fragments) |->
             IF Fragments[i].holds \in held THEN Fragments[i].written ELSE ""], "")
  \o "<p>Hello, world</p></body></html>"

\* no phrase, each phrase alone, and the pair that counts only together
HeldSets ==
  {{}} \cup {{Fragments[i].holds} : i \in 1..Len(Fragments)}
       \cup {{"attention required", "cloudflare"}}

\* body text lengths, paragraph counts and link counts around the thresholds
BodyLengths == {0, 119, 120, 199, 200, 500}
ParagraphCounts == {0, 1, 2}
LinkCounts == {0, 3, 4}

Extracted(bodyLen, paras, links) ==
  [_bodyTextLength |-> bodyLen,
   paragraphs |-> [i \in 1..paras |-> "p" \o ToString(i)],
   links |-> [i \in 1..links |-> "a" \o ToString(i)]]

Samples ==
  {[html |-> Html(held), held |-> held, extracted |-> Extracted(bodyLen, paras, links)] :
     held \in HeldSets, bodyLen \in BodyLengths,
     paras \in ParagraphCounts, links \in LinkCounts}

InitClassify ==
  /\ sample \in Samples
  /\ verdict = NoVerdict
  /\ document = Undefined
  /\ extraction = Undefined
  /\ input = [url |-> DocUrl, prompt |-> ""]
  /\ env \in {e \in Envs : e.serverless /\ e.chromiumPath = ""}
  /\ pc = "start"
  /\ normalizedUrl = Null
  /\ scraped = Undefined
  /\ methodUsed = Null
  /\ httpError = Null
  /\ httpTask = HttpPending("idle")
  /\ browserTask = [st |-> "idle", attempt |-> 0, out |-> Pending("idle"),
                    html |-> Undefined, captures |-> 0, rejections |-> 0,
                    scrolls |-> 0, waited |-> 0]
  /\ browsers = [launched |-> 0, closed |-> 0]
  /\ postAnswer = Undefined
  /\ calls = [get |-> 0, post |-> 0]
  /\ result = Undefined
  /\ thrown = Undefined
  /\ caller = [kind |-> "none", body |-> "json", st |-> "none"]
  /\ delivered = NothingDelivered

ClassifyFrame == UNCHANGED <<sample, extractorVars, callerVars, postAnswer, input, env, pc,
                             normalizedUrl, scraped, methodUsed, httpError, httpTask,
                             browserTask, browsers, calls, result, thrown>>

\* looksBlockedOrJsRequired(html, extracted) returns
ClassifyBlocked ==
  /\ sample # Undefined
  /\ "blocked" \notin DOMAIN verdict
  /\ verdict' = Spread(verdict,
                       [blocked |-> LooksBlockedOrJsRequired(sample.html, sample.extracted)])
  /\ ClassifyFrame

\* looksEmptyExtraction(extracted) returns
ClassifyEmpty ==
  /\ sample # Undefined
  /\ "empty" \notin DOMAIN verdict
  /\ verdict' = Spread(verdict, [empty |-> LooksEmptyExtraction(sample.extracted)])
  /\ ClassifyFrame

NextClassify == ClassifyBlocked \/ ClassifyEmpty

SpecClassify == InitClassify /\ [][NextClassify]_vars

-----------------------------------------------------------------------------
(* Vocabulary of the properties *)

\* scrapeAndSummarize threw the public error of a double scrape failure
ScrapeFailed == pc = "failed" /\ thrown.statusCode = 422

Details == thrown.publicPayload.details
ErrorType == thrown.publicPayload.errorType

\* the url passed validation
Validated == normalizedUrl # Null

\* scrapeWithBrowser has been called
BrowserAttempted == browserTask.st # "idle"

\* the classifier has rejected the extraction of all maxAttempts captures
AllAttemptsRejected ==
  \/ browserTask.attempt = maxAttempts
  \/ (browserTask.attempt = maxAttempts - 1 /\ browserTask.st = "scroll")

\* new URL(input.url), for each raw url an input may carry
ParsedUrl == [u \in RawUrls |-> ParseUrl(u)]

\* the keys of the returned record that come from the extraction
ExtractionOf(r) == [k \in (DOMAIN r) \ {"url", "methodUsed", "summary", "scrapedAt"} |-> r[k]]

-----------------------------------------------------------------------------
\* C1: once the url has passed validation, every failure of the HTTP attempt
\* (the error of scrapeWithHttp, or HTTP_TIMEOUT when the 15s timer wins) is
\* stored in httpError and scrapeWithBrowser is called next; the request
\* never fails while scrapeWithBrowser has not been called.
C1_HttpFailureEscalates ==
  /\ [](pc = "failed" /\ Validated => BrowserAttempted /\ httpError # Null)
  /\ [][(pc = "http" /\ pc' # "http" /\ httpTask.st # "resolved")
          => /\ pc' = "browser"
             /\ BrowserAttempted'
             /\ httpError' = IF httpTask.st = "rejected"
                             THEN httpTask.message ELSE "HTTP_TIMEOUT"]_vars

C1_Witness ==
  /\ pc = "browser"
  /\ httpError = "JAVASCRIPT_RENDERED"
  /\ browserTask.st = "launching"

\* C2: in a returned record methodUsed is HTTP exactly when the HTTP race
\* resolved (then scrapeWithBrowser was never called and no browser
\* launched), BROWSER exactly when the HTTP attempt failed and the browser
\* race resolved; the extraction fields are those of that attempt.
C2_MethodUsedNamesTheAttempt ==
  pc = "done" =>
    /\ result.methodUsed \in {"HTTP", "BROWSER"}
    /\ result.methodUsed = "HTTP" <=> (httpError = Null /\ httpTask.st = "resolved")
    /\ result.methodUsed = "HTTP" =>
         /\ ~BrowserAttempted
         /\ browsers.launched = 0
         /\ ExtractionOf(result) = httpTask.value
    /\ result.methodUsed = "BROWSER" <=> (httpError # Null /\ browserTask.st = "resolved")
    /\ result.methodUsed = "BROWSER" => ExtractionOf(result) = browserTask.out.value

C2_Witness ==
  /\ pc = "done"
  /\ result.methodUsed = "BROWSER"
  /\ httpTask.st = "resolved"
  /\ httpTask.value # browserTask.out.value

\* C3: once scrapeWithBrowser has settled, every browser it launched has
\* been closed, whether it returned an extraction, threw BLOCKED_OR_EMPTY or
\* threw from page setup, navigation or capture; a browser is never closed
\* twice.
C3_BrowserClosedOnEveryExit ==
  /\ browsers.closed <= browsers.launched
  /\ (Settled(browserTask) => browsers.closed = browsers.launched)

C3_Witness ==
  /\ browserTask.st = "rejected"
  /\ browserTask.out.message = GotoError
  /\ browsers.launched = 1
  /\ browsers.closed = 1

\* C4: an input url that parses with a scheme other than http / https makes
\* scrapeAndSummarize throw INVALID_URL_PROTOCOL with statusCode 400 at
\* once: no axios.get, no browser launch, no axios.post.
C4_InvalidProtocolRejected ==
  (/\ pc # "start"
   /\ ParsedUrl[input.url].ok
   /\ ParsedUrl[input.url].protocol \notin {"http:", "https:"})
  => /\ pc = "failed"
     /\ thrown.publicPayload.errorType = "INVALID_URL_PROTOCOL"
     /\ thrown.message = "INVALID_URL_PROTOCOL"
     /\ thrown.statusCode = 400
     /\ calls = [get |-> 0, post |-> 0]
     /\ ~BrowserAttempted
     /\ browsers.launched = 0

C4_Witness ==
  /\ pc = "failed"
  /\ input.url = "ftp://example.com"
  /\ thrown.statusCode = 400

\* C5: a non-empty input url that does not parse as an absolute URL makes
\* scrapeAndSummarize throw INVALID_URL with statusCode 400 before any fetch.
C5_UnparsableUrlRejected ==
  (/\ pc # "start"
   /\ input.url # ""
   /\ ~ParsedUrl[input.url].ok)
  => /\ pc = "failed"
     /\ thrown.publicPayload.errorType = "INVALID_URL"
     /\ thrown.statusCode = 400
     /\ calls = [get |-> 0, post |-> 0]
     /\ ~BrowserAttempted

C5_Witness ==
  /\ pc = "failed"
  /\ input.url = "not-a-url"
  /\ thrown.publicPayload.errorType = "INVALID_URL"


\* C6 as stated: when the HTTP attempt failed with HTTP_ERROR_403 and the
\* classifier has rejected all 6 captures of the browser fetcher, the request
\* fails with errorType BLOCKED, statusCode 422, details.httpError
\* HTTP_ERROR_403 and details.browserError BLOCKED_OR_EMPTY.
C6_AsStated ==
  (pc = "failed" /\ httpError = "HTTP_ERROR_403" /\ AllAttemptsRejected)
  => /\ ErrorType = "BLOCKED"
     /\ thrown.statusCode = 422
     /\ Details.httpError = "HTTP_ERROR_403"
     /\ Details.browserError = "BLOCKED_OR_EMPTY"

\* C6 (amended): when the HTTP attempt failed with HTTP_ERROR_403 and the
\* classifier has rejected all 6 captures, the request fails with statusCode
\* 422 and details.httpError HTTP_ERROR_403; errorType is BLOCKED with
\* details.browserError BLOCKED_OR_EMPTY when the BLOCKED_OR_EMPTY rejection
\* of scrapeWithBrowser arrived before the 25s timer, and TIMEOUT with
\* details.browserError BROWSER_TIMEOUT when the timer fired first.
C6_BlockedUnlessDeadline ==
  /\ []((pc = "failed" /\ httpError = "HTTP_ERROR_403" /\ AllAttemptsRejected)
          => /\ thrown.statusCode = 422
             /\ Details.httpError = "HTTP_ERROR_403"
             /\ \/ (ErrorType = "BLOCKED" /\ Details.browserError = "BLOCKED_OR_EMPTY")
                \/ (ErrorType = "TIMEOUT" /\ Details.browserError = "BROWSER_TIMEOUT"))
  /\ [][(/\ pc = "browser"
         /\ pc' # "browser"
         /\ httpError = "HTTP_ERROR_403"
         /\ AllAttemptsRejected)
          => /\ pc' = "failed"
             /\ thrown'.publicPayload.errorType =
                  IF browserTask.st = "rejected" THEN "BLOCKED" ELSE "TIMEOUT"
             /\ thrown'.publicPayload.details.browserError =
                  IF browserTask.st = "rejected" THEN "BLOCKED_OR_EMPTY" ELSE "BROWSER_TIMEOUT"]_vars

C6_Witness ==
  /\ pc = "failed"
  /\ httpError = "HTTP_ERROR_403"
  /\ browserTask.attempt = maxAttempts
  /\ ErrorType = "BLOCKED"

\* C7 as stated: whenever the browser attempt failed with BLOCKED_OR_EMPTY,
\* the public errorType is BLOCKED, whatever the HTTP attempt failed with.
C7_AsStated ==
  (ScrapeFailed /\ Details.browserError = "BLOCKED_OR_EMPTY") => ErrorType = "BLOCKED"

\* C7 (amended): whenever the browser attempt failed with BLOCKED_OR_EMPTY,
\* the public errorType is BLOCKED if the retained HTTP error message does
\* not contain TIMEOUT (HTTP_ERROR_<status>, JAVASCRIPT_RENDERED, transport
\* error) and TIMEOUT if it does (HTTP_TIMEOUT).
C7_BlockedUnlessHttpTimeout ==
  (ScrapeFailed /\ Details.browserError = "BLOCKED_OR_EMPTY")
  => /\ httpError = "HTTP_TIMEOUT" => ErrorType = "TIMEOUT"
     /\ httpError # "HTTP_TIMEOUT" => ErrorType = "BLOCKED"

C7_Witness ==
  /\ ScrapeFailed
  /\ Details.browserError = "BLOCKED_OR_EMPTY"
  /\ httpError = "HTTP_TIMEOUT"
  /\ ErrorType = "TIMEOUT"

\* C8: whenever the 25s timer of the browser attempt fires first
\* (BROWSER_TIMEOUT), the request fails with errorType TIMEOUT and statusCode
\* 422 whatever httpError holds; HTTP_TIMEOUT alone never fails the request:
\* it is followed by the browser attempt, and a failure after it carries the
\* browser attempt's error.
C8_BrowserTimeoutIsTimeout ==
  /\ [][(pc = "browser" /\ ~Settled(browserTask) /\ pc' # "browser")
          => /\ pc' = "failed"
             /\ thrown'.statusCode = 422
             /\ thrown'.publicPayload.errorType = "TIMEOUT"
             /\ thrown'.publicPayload.details.browserError = "BROWSER_TIMEOUT"
             /\ thrown'.publicPayload.details.httpError = httpError]_vars
  /\ [](httpError = "HTTP_TIMEOUT" =>
          /\ BrowserAttempted
          /\ pc = "failed" => (thrown.statusCode = 422 /\ Details.browserError # Null))

C8_Witness ==
  /\ ScrapeFailed
  /\ Details.browserError = "BROWSER_TIMEOUT"
  /\ Details.httpError = "HTTP_ERROR_404"
  /\ ErrorType = "TIMEOUT"

NoExecutableErrors == {"BROWSER_EXECUTABLE_NOT_FOUND", "LOCAL_BROWSER_EXECUTABLE_NOT_CONFIGURED"}

\* C9 as stated: whenever the browser attempt failed because no executable
\* could be resolved, no browser was launched and the public errorType is
\* SCRAPE_ERROR, whatever the HTTP attempt failed with.
C9_AsStated ==
  (ScrapeFailed /\ Details.browserError \in NoExecutableErrors)
  => (browsers.launched = 0 /\ ErrorType = "SCRAPE_ERROR")

\* C9 (amended): whenever the browser attempt failed because no executable
\* could be resolved (BROWSER_EXECUTABLE_NOT_FOUND when serverless,
\* LOCAL_BROWSER_EXECUTABLE_NOT_CONFIGURED otherwise), no browser is ever
\* launched, and the public errorType is SCRAPE_ERROR if the retained HTTP
\* error message does not contain TIMEOUT and TIMEOUT if it does
\* (HTTP_TIMEOUT).
C9_NoExecutableIsScrapeError ==
  /\ (browserTask.out.st = "rejected" /\ browserTask.out.message \in NoExecutableErrors)
       => /\ browsers.launched = 0
          /\ browserTask.out.message =
               IF env.serverless THEN "BROWSER_EXECUTABLE_NOT_FOUND"
               ELSE "LOCAL_BROWSER_EXECUTABLE_NOT_CONFIGURED"
  /\ (ScrapeFailed /\ Details.browserError \in NoExecutableErrors)
       => /\ browsers.launched = 0
          /\ httpError = "HTTP_TIMEOUT" => ErrorType = "TIMEOUT"
          /\ httpError # "HTTP_TIMEOUT" => ErrorType = "SCRAPE_ERROR"

C9_Witness ==
  /\ ScrapeFailed
  /\ Details.browserError = "BROWSER_EXECUTABLE_NOT_FOUND"
  /\ httpError = "HTTP_ERROR_403"
  /\ ErrorType = "SCRAPE_ERROR"

\* C10: once scraping has succeeded, the request never fails, whatever
\* axios.post answers (a body, 429, another status, no response): the call
\* is followed by the return of a record whose url, methodUsed and
\* extraction fields are those held before the call, its keys being those of
\* a record returned without a call; only summary depends on the answer.
C10_SummarizationNeverFails ==
  /\ [](calls.post > 0 => pc \in {"summarize", "done"})
  /\ [](scraped # Undefined => pc \in {"summarize", "done"})
  /\ [][(pc = "summarize" /\ pc' # "summarize")
          => /\ pc' = "done"
             /\ result'.url = normalizedUrl
             /\ result'.methodUsed = methodUsed
             /\ ExtractionOf(result') = scraped
             /\ DOMAIN result' = DOMAIN Assemble(normalizedUrl, methodUsed, "", scraped)
             /\ UNCHANGED <<normalizedUrl, methodUsed, scraped>>]_vars

C10_Witness ==
  /\ pc = "done"
  /\ calls.post = 1
  /\ result.summary = RateLimitSummary
  /\ result.methodUsed = "BROWSER"

-----------------------------------------------------------------------------
\* C11: when the summarization call is made, a successful response body
\* becomes the summary verbatim; a failure whose response status is 429
\* becomes the fixed rate-limit message; every other failure (another
\* status, or no response at all) becomes the fixed unavailable message.
C11_SummaryFollowsTheAnswer ==
  postAnswer # Undefined =>
    /\ pc = "done"
    /\ postAnswer.kind = "response" => result.summary = postAnswer.data
    /\ postAnswer.kind = "error" /\ postAnswer.status = 429 =>
         result.summary = RateLimitSummary
    /\ postAnswer.kind = "error" /\ postAnswer.status # 429 =>
         result.summary = UnavailableSummary

C11_Witness ==
  /\ postAnswer # Undefined
  /\ postAnswer.kind = "error"
  /\ postAnswer.status = 429
  /\ result.summary = RateLimitSummary

-----------------------------------------------------------------------------
\* C12: the summarization service is called at most once per invocation,
\* only after scraping has succeeded and only when a prompt was supplied;
\* with no prompt no call is made and the summary of the record is empty.
C12_SummarizeOnlyOnPrompt ==
  /\ calls.post <= 1
  /\ calls.post = 1 =>
       /\ input.prompt # ""
       /\ scraped # Undefined
       /\ methodUsed \in {"HTTP", "BROWSER"}
       /\ pc \in {"summarize", "done"}
  /\ input.prompt = "" =>
       /\ calls.post = 0
       /\ postAnswer = Undefined
       /\ pc = "done" => result.summary = ""

C12_Witness ==
  /\ pc = "done"
  /\ calls.post = 1
  /\ input.prompt # ""
  /\ result.summary = postAnswer.data

-----------------------------------------------------------------------------
\* what the two heuristics say of the extraction of page p fetched from url u
Heuristics ==
  [u \in NormalizedUrls |->
     [p \in Pages |->
        LET extracted == ExtractFromHtml(p, u)
        IN [blocked |-> LooksBlockedOrJsRequired(p.rawHtml, extracted),
            empty |-> LooksEmptyExtraction(extracted)]]]

\* what extractFromHtml returns for page p fetched from url u
Extractions == [u \in NormalizedUrls |-> [p \in Pages |-> ExtractFromHtml(p, u)]]

\* scrapeWithHttp has extracted the html it fetched
HttpExtracted == httpTask.html # Undefined

HttpHeuristics == Heuristics[normalizedUrl][httpTask.html]

-----------------------------------------------------------------------------
\* tryExtractLoop is running
InLoop == browserTask.st \in {"netIdle", "content", "scroll", "wait"}

\* the extraction of the html the loop accepted
AcceptedExtraction == Extractions[normalizedUrl][browserTask.html]

\* how far tryExtractLoop has got: four awaits per attempt
LoopProgress(task) ==
  4 * task.attempt + CASE task.st = "netIdle" -> 0
                       [] task.st = "content" -> 1
                       [] task.st = "scroll" -> 2
                       [] task.st = "wait" -> 3
                       [] OTHER -> 4

\* C14: the retry loop terminates after at most 6 extraction attempts (every
\* step of the loop leaves it or takes it further, and it is never further
\* than the wait of the 6th attempt); when all 6 are rejected
\* scrapeWithBrowser fails with BLOCKED_OR_EMPTY: it never returns a
\* rejected extraction and never makes a 7th attempt.
C14_LoopBoundedBySixAttempts ==
  /\ [](/\ browserTask.captures <= maxAttempts
        /\ browserTask.rejections = maxAttempts =>
             \/ browserTask.st \in {"scroll", "wait"}
             \/ browserTask.out = Rejected("BLOCKED_OR_EMPTY")
        /\ browserTask.out.message = "BLOCKED_OR_EMPTY" =>
             browserTask.rejections = maxAttempts
        /\ browserTask.out.st = "resolved" =>
             /\ browserTask.rejections < maxAttempts
             /\ ~Heuristics[normalizedUrl][browserTask.html].blocked
             /\ ~Heuristics[normalizedUrl][browserTask.html].empty
             /\ browserTask.out.value = Rest(AcceptedExtraction, "_bodyTextLength"))
  /\ [](InLoop => LoopProgress(browserTask) < 4 * maxAttempts)
  /\ [][(InLoop /\ browserTask' # browserTask) =>
           \/ ~InLoop'
           \/ LoopProgress(browserTask') > LoopProgress(browserTask)]_vars

C14_Witness ==
  /\ browserTask.st = "rejected"
  /\ browserTask.out.message = "BLOCKED_OR_EMPTY"
  /\ browserTask.captures = maxAttempts
  /\ browserTask.rejections = maxAttempts

-----------------------------------------------------------------------------
\* C15: extractFromHtml returns at most 10 tables, 30 lists and 80 unique
\* components; every table has at most 50 rows and at most 20 header and
\* row columns; every list has at most 60 items.
C15_ExtractionWithinCaps ==
  extraction # Undefined =>
    /\ Len(extraction.tables) <= 10
    /\ Len(extraction.lists) <= 30
    /\ Len(extraction.uniqueComponents) <= 80
    /\ \A t \in 1..Len(extraction.tables) :
         LET table == extraction.tables[t]
         IN /\ Len(table.rows) <= 50
            /\ table.rowCount <= 50
            /\ Len(table.headers) <= 20
            /\ table.colCount <= 20
            /\ \A r \in 1..Len(table.rows) : Len(table.rows[r]) <= 20
    /\ \A l \in 1..Len(extraction.lists) :
         /\ Len(extraction.lists[l].items) <= 60
         /\ extraction.lists[l].itemCount <= 60

C15_Witness ==
  /\ extraction # Undefined
  /\ Len(document.tables) > 10 /\ Len(extraction.tables) = 10
  /\ Len(document.lists) > 30 /\ Len(extraction.lists) = 30
  /\ Len(document.elements) > 80 /\ Len(extraction.uniqueComponents) = 80
  /\ Len(document.tables[1].tbody) > 50 /\ Len(extraction.tables[1].rows) = 50
  /\ Len(document.tables[1].thead) > 0
  /\ Len(document.tables[1].thead[1]) > 20 /\ Len(extraction.tables[1].headers) = 20
  /\ Len(document.tables[1].tbody[1]) > 20 /\ Len(extraction.tables[1].rows[1]) = 20
  /\ Len(document.lists[1].items) > 60 /\ Len(extraction.lists[1].items) = 60

-----------------------------------------------------------------------------
\* C16, as stated: uniqueComponents holds no two entries with the same
\* (name, content), content being the stored value, cut to 300 characters.
C16_AsStated ==
  extraction # Undefined =>
    \A i, j \in 1..Len(extraction.uniqueComponents) :
       i # j => extraction.uniqueComponents[i] # extraction.uniqueComponents[j]

-----------------------------------------------------------------------------
\* POST has returned a Response
Responded == caller.kind = "POST" /\ delivered.response # Undefined

\* the url of the input is missing or fails validation
UrlRejected ==
  \/ input.url = ""
  \/ ~ParsedUrl[input.url].ok
  \/ ParsedUrl[input.url].protocol \notin {"http:", "https:"}

\* the HTTP attempt and the browser attempt have both failed
BothAttemptsFailed ==
  /\ Validated
  /\ httpError # Null
  /\ BrowserAttempted
  /\ pc = "failed"

\* C17: every failure of a POST request maps to exactly one status: 400 when
\* the url is missing or fails validation, 422 when both scrape attempts
\* failed, 500 for any other exception, a malformed body included; the 500
\* payload is the fixed error and message plus a timestamp, and never holds
\* the message of the internal error.
C17_OneStatusPerFailure ==
  Responded =>
    LET status == delivered.response.status
        payload == delivered.response.body
    IN /\ status \in {200, 400, 422, 500}
       /\ status = 200 <=> (caller.body = "json" /\ pc = "done")
       /\ status = 400 <=> (caller.body = "json" /\ pc = "failed" /\ UrlRejected)
       /\ status = 422 <=> (caller.body = "json" /\ BothAttemptsFailed)
       /\ status = 500 <=> caller.body = "malformed"
       /\ status = 500 =>
            /\ DOMAIN payload = {"error", "message", "timestamp"}
            /\ payload.error = "Internal server error"
            /\ payload.message =
                 "An unexpected error occurred while processing your request."
            /\ \A k \in DOMAIN payload : payload[k] # BodySyntaxError.message

C17_Witness ==
  /\ Responded
  /\ caller.body = "malformed"
  /\ delivered.response.status = 500

\* the callback of Actor.main has ended, by returning or by throwing
ActorEnded == caller.kind = "Actor" /\ caller.st \in {"exited", "failed"}

\* C18: in an Actor run a successful scrape is followed by exactly one
\* dataset append and then one key-value write of OUTPUT, both with the
\* record scrapeAndSummarize returned; when the input has no url or
\* scrapeAndSummarize fails, neither the dataset nor OUTPUT is written.
C18_ActorStoresOnceOnSuccess ==
  /\ [](caller.kind = "Actor" =>
         /\ Len(delivered.dataset) <= 1
         /\ delivered.OUTPUT # Undefined => delivered.dataset = <<delivered.OUTPUT>>
         /\ delivered.dataset # <<>> => (pc = "done" /\ delivered.dataset = <<result>>)
         /\ (input.url = "" \/ pc = "failed") =>
              (delivered.dataset = <<>> /\ delivered.OUTPUT = Undefined)
         /\ ActorEnded =>
              IF pc = "done"
              THEN caller.st = "exited" /\ delivered.dataset = <<result>>
                                       /\ delivered.OUTPUT = result
              ELSE caller.st = "failed" /\ delivered.dataset = <<>>
                                       /\ delivered.OUTPUT = Undefined)
  /\ [][caller.kind = "Actor" =>
          /\ delivered.dataset # <<>> => delivered'.dataset = delivered.dataset
          /\ delivered.OUTPUT # Undefined => delivered'.OUTPUT = delivered.OUTPUT
          /\ delivered'.OUTPUT # delivered.OUTPUT => delivered.dataset # <<>>]_vars

C18_Witness ==
  /\ caller.kind = "Actor"
  /\ caller.st = "exited"
  /\ delivered.dataset = <<result>>
  /\ delivered.OUTPUT = result
  /\ result.methodUsed = "BROWSER"

-----------------------------------------------------------------------------
\* the loop is about to capture, or is capturing, after a rejected attempt
BeforeNextCapture == browserTask.st \in {"netIdle", "content"} /\ browserTask.attempt > 0

\* the delay the loop asks for after the attempt before the current one
DelayAsked == 900 + 200 * (browserTask.attempt - 1)

\* the loop has returned an extraction
LoopAccepted == browserTask.out.st = "resolved"

\* C19, as stated: after each rejected attempt a scroll and a delay of
\* 900ms + 200ms x attempt index precede the next capture.
C19_AsStated ==
  BeforeNextCapture =>
    /\ browserTask.scrolls = browserTask.attempt
    /\ browserTask.waited = DelayAsked

\* C19, amended: the extraction the loop returns is that of the first
\* attempt on which neither predicate fires, and the loop stops there with
\* no further scroll, wait or capture; after each rejected attempt a scroll
\* is issued and, unless the scroll or the wait throws, which the loop
\* ignores by going on at once, a delay of 900ms + 200ms x attempt index
\* precedes the next capture.
C19_FirstAcceptedAttemptReturns ==
  /\ [](/\ browserTask.scrolls = browserTask.rejections
        /\ BeforeNextCapture =>
             /\ browserTask.scrolls = browserTask.attempt
             /\ browserTask.waited \in {0, DelayAsked}
        /\ LoopAccepted =>
             /\ browserTask.captures = browserTask.rejections + 1
             /\ browserTask.captures = browserTask.attempt + 1
             /\ ~Heuristics[normalizedUrl][browserTask.html].blocked
             /\ ~Heuristics[normalizedUrl][browserTask.html].empty
             /\ browserTask.out.value = Rest(AcceptedExtraction, "_bodyTextLength")
             /\ browserTask.waited = 0)
  /\ [][LoopAccepted =>
          /\ browserTask'.out = browserTask.out
          /\ browserTask'.html = browserTask.html
          /\ browserTask'.captures = browserTask.captures
          /\ browserTask'.scrolls = browserTask.scrolls
          /\ browserTask'.waited = browserTask.waited]_vars
  /\ [][browserTask'.captures # browserTask.captures =>
          /\ browserTask'.captures = browserTask.captures + 1
          /\ browserTask.rejections = browserTask.captures
          /\ ~LoopAccepted]_vars

C19_Witness ==
  /\ browserTask.st = "content"
  /\ browserTask.attempt = 2
  /\ browserTask.rejections = 2
  /\ browserTask.scrolls = 2
  /\ browserTask.waited = 1100

-----------------------------------------------------------------------------
\* the 15s timer won the race against scrapeWithHttp
HttpTimedOut == httpError = "HTTP_TIMEOUT"

\* C20: after HTTP_TIMEOUT the HTTP fetch may still settle while the browser
\* attempt runs, but its late result or error is never used: the record or
\* the error classification depends on HTTP_TIMEOUT and the outcome of the
\* browser attempt only, and methodUsed is never HTTP.
C20_LateHttpResultUnused ==
  /\ [](HttpTimedOut =>
         /\ scraped # Undefined => scraped = browserTask.out.value
         /\ pc \in {"summarize", "done"} => methodUsed = "BROWSER"
         /\ pc = "done" =>
              /\ result.methodUsed = "BROWSER"
              /\ ExtractionOf(result) = browserTask.out.value
         /\ pc = "failed" =>
              /\ Details.httpError = "HTTP_TIMEOUT"
              /\ Details.browserError \in {"BROWSER_TIMEOUT", browserTask.out.message}
              /\ ErrorType = "TIMEOUT")
  /\ [][(HttpTimedOut /\ httpTask' # httpTask) =>
          UNCHANGED <<pc, scraped, methodUsed, httpError, browserTask, browsers,
                      calls, result, thrown, postAnswer, caller, delivered>>]_vars

C20_Witness ==
  /\ HttpTimedOut
  /\ pc = "done"
  /\ httpTask.st = "resolved"
  /\ httpTask.value # browserTask.out.value
  /\ result.methodUsed = "BROWSER"
  /\ ExtractionOf(result) = browserTask.out.value

-----------------------------------------------------------------------------
(* scrapeAndSummarize settling *)

\* scrapeAndSummarize has returned its record or thrown
Finished == pc \in {"done", "failed"}

\* C21: when scrapeAndSummarize settles, by returning a record or by
\* throwing, every browser launched during the invocation has already been
\* closed, also when it throws because the 25s timer won the race
\* (BROWSER_TIMEOUT).
C21_AsStated ==
  [][(~Finished /\ Finished') => browsers'.closed = browsers'.launched]_vars

-----------------------------------------------------------------------------
(* The lightweight fetcher *)

\* axios.get answered with a status in [400, 500)
ClientErrorStatus == httpTask.status >= 400 /\ httpTask.status < 500

\* C22: scrapeWithHttp calls axios.get at most once per invocation and
\* never again: an answer with a status in [400, 500) rejects with
\* HTTP_ERROR_<status> and the extractor has not run; an extraction that
\* looksBlockedOrJsRequired rejects with JAVASCRIPT_RENDERED; and whenever
\* scrapeWithHttp has failed, and afterwards, exactly one axios.get was made.
C22_OneGetNoRetry ==
  /\ calls.get <= 1
  /\ (Settled(httpTask) /\ ClientErrorStatus) =>
       /\ httpTask.st = "rejected"
       /\ httpTask.message = "HTTP_ERROR_" \o ToString(httpTask.status)
       /\ ~HttpExtracted
  /\ (HttpExtracted /\ HttpHeuristics.blocked) =>
       /\ httpTask.st = "rejected"
       /\ httpTask.message = "JAVASCRIPT_RENDERED"
  /\ (httpTask.st = "rejected" \/ httpError # Null) => calls.get = 1

C22_Witness ==
  /\ pc = "browser"
  /\ httpTask.st = "rejected"
  /\ httpTask.status = 404
  /\ httpError = "HTTP_ERROR_404"
  /\ calls.get = 1

-----------------------------------------------------------------------------
(* The record scrapeAndSummarize returns *)

\* the lower-cased html holds one of the challenge phrases
HoldsChallengePhrase(lower) ==
  \/ Includes(lower, "enable javascript")
  \/ Includes(lower, "please enable cookies")
  \/ (Includes(lower, "attention required") /\ Includes(lower, "cloudflare"))
  \/ Includes(lower, "cf-chl")
  \/ Includes(lower, "challenge-platform")
  \/ Includes(lower, "access denied")

Challenged == [p \in Pages |-> HoldsChallengePhrase(ToLowerCase(p.rawHtml))]

\* the html the returned record was extracted from
ReturnedHtml == IF result.methodUsed = "HTTP" THEN httpTask.html ELSE browserTask.html

ReturnedExtraction == Extractions[normalizedUrl][ReturnedHtml]

\* C23: a record returned by scrapeAndSummarize has no _bodyTextLength and
\* holds the extraction of an html the classifier accepted: its body text
\* is at least 120 long and its raw html holds no challenge phrase, and with
\* methodUsed BROWSER it is moreover neither (bodyLen < 200 and fewer than 2
\* paragraphs) nor (no paragraph and at most 3 links).
C23_ReturnedRecordWasAccepted ==
  pc = "done" =>
    /\ "_bodyTextLength" \notin DOMAIN result
    /\ result.methodUsed \in {"HTTP", "BROWSER"}
    /\ ReturnedHtml # Undefined
    /\ ExtractionOf(result) = Rest(ReturnedExtraction, "_bodyTextLength")
    /\ ReturnedExtraction._bodyTextLength >= 120
    /\ ~Challenged[ReturnedHtml]
    /\ result.methodUsed = "BROWSER" =>
         /\ ~(/\ ReturnedExtraction._bodyTextLength < 200
              /\ Len(ReturnedExtraction.paragraphs) < 2)
         /\ ~(/\ Len(ReturnedExtraction.paragraphs) = 0
              /\ Len(ReturnedExtraction.links) <= 3)

\* a record returned from the browser after scrapeWithHttp had rejected an
\* html, summarized
C23_Witness ==
  /\ pc = "done"
  /\ result.methodUsed = "BROWSER"
  /\ result.summary # ""
  /\ httpError = "JAVASCRIPT_RENDERED"
  /\ "_bodyTextLength" \notin DOMAIN result
  /\ ReturnedExtraction._bodyTextLength >= 200

-----------------------------------------------------------------------------
(* The two predicates *)

BlockedReturned == "blocked" \in DOMAIN verdict
EmptyReturned == "empty" \in DOMAIN verdict

\* the html of sample was written with one of the challenge phrases
WrittenWithChallenge ==
  \/ "enable javascript" \in sample.held
  \/ "please enable cookies" \in sample.held
  \/ {"attention required", "cloudflare"} \subseteq sample.held
  \/ "cf-chl" \in sample.held
  \/ "challenge-platform" \in sample.held
  \/ "access denied" \in sample.held

\* C24: looksBlockedOrJsRequired(html, doc) returns true whenever the body
\* text length of doc is below 120, and returns true exactly when that
\* length is below 120 or html holds, in any letter case, one of: "enable
\* javascript", "please enable cookies", "attention required" together with
\* "cloudflare", "cf-chl", "challenge-platform", "access denied".
C24_BlockedIffShortOrChallenged ==
  BlockedReturned =>
    /\ sample.extracted._bodyTextLength < 120 => verdict.blocked
    /\ verdict.blocked <=>
         (sample.extracted._bodyTextLength < 120 \/ WrittenWithChallenge)

C24_Witness ==
  /\ BlockedReturned
  /\ verdict.blocked
  /\ sample.held = {"attention required", "cloudflare"}
  /\ sample.extracted._bodyTextLength = 500

\* C25: looksEmptyExtraction(doc) returns true exactly when (body text
\* length < 200 and fewer than 2 paragraphs) or (no paragraph and at most 3
\* links); so it returns true for every doc with no paragraph and at most 3
\* links, whatever the body text length.
C25_EmptyIffThinOrLinksOnly ==
  EmptyReturned =>
    /\ (Len(sample.extracted.paragraphs) = 0 /\ Len(sample.extracted.links) <= 3)
         => verdict.empty
    /\ verdict.empty <=>
         \/ (/\ sample.extracted._bodyTextLength < 200
             /\ Len(sample.extracted.paragraphs) < 2)
         \/ (/\ Len(sample.extracted.paragraphs) = 0
             /\ Len(sample.extracted.links) <= 3)

C25_Witness ==
  /\ EmptyReturned
  /\ verdict.empty
  /\ Len(sample.extracted.paragraphs) = 0
  /\ Len(sample.extracted.links) = 3
  /\ sample.extracted._bodyTextLength = 500

====
